---- MODULE Spec2Model ----
(***************************************************************************)
(* A model of chroma-db-gui: the ChromaDBService session singleton and its *)
(* document and schema operations (src/src/lib/chromadb-client.ts), the    *)
(* DocumentViewer's fetch, filter-construction and normalization logic     *)
(* (src/unnamed/part_001), the earlier DocumentViewer                      *)
(* (src/src/components/documents/document-viewer.tsx) and the heartbeat    *)
(* proxy route (src/unnamed/part_002).                                     *)
(*                                                                         *)
(* A nullable reference is a sequence of length at most one: <<>> is null  *)
(* and <<x>> is a reference to x.                                          *)
(***************************************************************************)
EXTENDS Integers, Sequences, FiniteSets, TLC

VARIABLES
    client,          \* ChromaDBService.client: null or the ChromaClient instance
    connection,      \* ChromaDBService.connection: null or the ChromaConnection record
    pending,         \* the connect calls suspended at `await this.client.heartbeat()`
    nextId,          \* identity of the next connect call (and of the client it creates)
    last,            \* what the most recent step of the service did, as its caller sees it
                     \* (for disconnect, id is 2 when the step before was a disconnect too)
    sinceDisconnect, \* history: disconnect() has completed and no connect call has started since
    lastGood         \* history: the latest connect that returned with no call overlapping it

svcVars == <<client, connection, pending, nextId, last, sinceDisconnect, lastGood>>

VARIABLES
    documents,       \* DocumentViewer state: the documents shown
    loading,
    error,           \* null or the inline error message
    currentPage,
    totalDocuments,
    searchTerm,
    searchType,
    metadataFilters,
    fetches,         \* the fetchDocuments calls in flight, each with its arguments and
                     \* the await it is suspended at
    nextFetch,       \* identity of the next fetchDocuments call, in order of issue
    lastSent,        \* history: the latest get/query request sent, with the call's arguments
    lastArrived,     \* history: the call whose get/query response arrived last, and the response
    newestApplied,   \* history: the latest-issued call whose response has been applied
    lastDone,        \* history: the call that completed without an error last, and what
                     \* its collection.count() answered (null when it did not call it)
    submitted        \* history: the term, the mode and the clauses of the latest
                     \* Search or Refresh

viewerVars ==
    <<documents, loading, error, currentPage, totalDocuments, searchTerm, searchType,
      metadataFilters, fetches, nextFetch, lastSent, lastArrived, newestApplied, lastDone,
      submitted>>

VARIABLES
    input,           \* the arguments of the function under study: for the metadata
                     \* branch, a list of metadata clauses and a page number
    built            \* null, or what the function returned for input: for the
                     \* metadata branch, the request it builds

filterVars == <<input, built>>

VARIABLES
    stored,          \* the remote collection: the rows the ChromaDB server holds
    added,           \* history: null, or the document the latest addDocument call was
                     \* given, the id it returned, and whether that id has been
                     \* updated or deleted since
    fetched,         \* null, or what the latest get-by-id showed
    listing,         \* null, or the default listing in flight: its page, the await
                     \* it is suspended at, the documents it has set, and whether
                     \* no add, update or delete has returned since it started
    shown            \* history: what the latest completed listings displayed (two
                     \* at most), as long as no add, update or delete has returned
                     \* since the first of them started

remoteVars == <<stored, added, fetched, listing, shown>>

VARIABLES
    queryResults,    \* QueryInterface state: results
    queryLoading,    \* loading
    queryError,      \* error: null or the inline message
    queryHistory,    \* the remembered query texts, newest first
    queryCall,       \* null, or the form data of the handleQuery call suspended at
                     \* `await chromaDBService.queryCollection(...)`
    lastQuery        \* history: null, or the form data of the latest handleQuery call,
                     \* whether it reached queryCollection, and the results and the
                     \* history shown when it was called

queryVars == <<queryResults, queryLoading, queryError, queryHistory, queryCall, lastQuery>>

VARIABLES
    guiConnection,      \* ChromaDBGUI state: connection
    collections,
    selectedCollection,
    guiPage,            \* currentPage
    guiError,           \* error
    listings,           \* the fetchCollections calls in flight
    nextListing         \* identity of the next fetchCollections call

guiVars ==
    <<guiConnection, collections, selectedCollection, guiPage, guiError, listings,
      nextListing>>

vars == <<svcVars, viewerVars, filterVars, remoteVars, queryVars, guiVars>>

-----------------------------------------------------------------------------
(* Bounds and input sets *)

MaxConnects == 3

Null == <<>>

Some(x) == <<x>>

\* the arguments of connect: Omit<ChromaConnection, 'id' | 'connected' | 'createdAt'>
Targets ==
    { [name |-> "local", host |-> "localhost", port |-> 8000],
      [name |-> "prod",  host |-> "db.example", port |-> 8001] }

\* what a rejected heartbeat promise carries: an Error with a message, or another value
Rejections ==
    { [isError |-> TRUE,  message |-> "ECONNREFUSED"],
      [isError |-> FALSE, message |-> ""] }

\* the service's operations that need a client
Ops ==
    { "getCollections", "getCollectionDetails", "getCollectionSchema",
      "queryCollection", "addDocument", "updateDocument", "deleteDocument" }

NoTarget == [name |-> "", host |-> "", port |-> 0]

-----------------------------------------------------------------------------
(* ChromaDBService *)

\* new ChromaClient({host, port, ssl: false}); `by` is the instance's identity
NewClient(t, id) == [host |-> t.host, port |-> t.port, by |-> id]

\* {...connection, id, connected: true, createdAt}; id and createdAt come from
\* the wall clock and are read by nothing modelled here
NewConnection(t) ==
    [name |-> t.name, host |-> t.host, port |-> t.port, connected |-> TRUE]

\* error instanceof Error ? error.message : 'Unknown error'
ErrorMessage(e) == IF e.isError THEN e.message ELSE "Unknown error"

ConnectFailure(e) == <<"Failed to connect to ChromaDB: ", ErrorMessage(e)>>

NotConnected == <<"Not connected to ChromaDB">>

OpFailurePrefix(op) ==
    CASE op = "getCollections"       -> "Failed to fetch collections: "
      [] op = "getCollectionDetails" -> "Failed to get collection details: "
      [] op = "getCollectionSchema"  -> "Failed to get collection schema: "
      [] op = "queryCollection"      -> "Failed to query collection: "
      [] op = "addDocument"          -> "Failed to add document: "
      [] op = "updateDocument"       -> "Failed to update document: "
      [] op = "deleteDocument"       -> "Failed to delete document: "

isConnected ==
    /\ client # Null
    /\ connection # Null
    /\ connection[1].connected = TRUE

getConnection == connection

getClient == client

\* the caller-visible record of a step
Event(call, id, outcome, err, via, target) ==
    [call |-> call, id |-> id, outcome |-> outcome, error |-> err,
     via |-> via, target |-> target]

NoGood == [id |-> 0, target |-> NoTarget, prev |-> Null]

ServiceInit ==
    /\ client = Null
    /\ connection = Null
    /\ pending = {}
    /\ nextId = 1
    /\ last = Event("none", 0, "none", <<>>, 0, NoTarget)
    /\ sinceDisconnect = FALSE
    /\ lastGood = NoGood

\* what the call does to the service
ConnectStartCall(t) ==
    /\ nextId <= MaxConnects
    /\ client' = Some(NewClient(t, nextId))
    /\ pending' = { [c EXCEPT !.alone = FALSE] : c \in pending }
                    \cup { [id |-> nextId, target |-> t, alone |-> pending = {}] }
    /\ nextId' = nextId + 1
    /\ last' = Event("connectStart", nextId, "pending", <<>>, 0, t)
    /\ sinceDisconnect' = FALSE
    /\ lastGood' = NoGood
    /\ UNCHANGED connection

\* connect, up to its await: the client is replaced before the heartbeat is tried
ConnectStart(t) ==
    /\ ConnectStartCall(t)
    /\ UNCHANGED <<viewerVars, filterVars, remoteVars, queryVars, guiVars>>

\* what the resumed call does to the service
HeartbeatResolveCall(c) ==
    /\ c \in pending
    /\ connection' = Some(NewConnection(c.target))
    /\ pending' = pending \ {c}
    /\ last' = Event("connect", c.id, "returned", <<>>, 0, c.target)
    /\ lastGood' = IF c.alone
                   THEN [id |-> c.id, target |-> c.target, prev |-> connection]
                   ELSE NoGood
    /\ UNCHANGED <<client, nextId, sinceDisconnect>>

\* first-writer-wins: a live connection record is kept
HeartbeatResolveKeepsFirst(c) ==
    /\ c \in pending
    /\ connection' = IF connection # Null THEN connection
                                          ELSE Some(NewConnection(c.target))
    /\ pending' = pending \ {c}
    /\ last' = Event("connect", c.id, "returned", <<>>, 0, c.target)
    /\ lastGood' = IF c.alone
                   THEN [id |-> c.id, target |-> c.target, prev |-> connection]
                   ELSE NoGood
    /\ UNCHANGED <<client, nextId, sinceDisconnect>>
    /\ UNCHANGED <<viewerVars, filterVars, remoteVars, queryVars, guiVars>>

\* connect, the heartbeat resolved: the connection record is stored and returned
HeartbeatResolve(c) ==
    /\ HeartbeatResolveCall(c)
    /\ UNCHANGED <<viewerVars, filterVars, remoteVars, queryVars, guiVars>>

\* what the resumed call does to the service
HeartbeatRejectCall(c, e) ==
    /\ c \in pending
    /\ pending' = pending \ {c}
    /\ last' = Event("connect", c.id, "threw", ConnectFailure(e), 0, c.target)
    /\ UNCHANGED <<client, connection, nextId, sinceDisconnect, lastGood>>

\* connect, the heartbeat rejected: the catch block rethrows and touches no field
HeartbeatReject(c, e) ==
    /\ HeartbeatRejectCall(c, e)
    /\ UNCHANGED <<viewerVars, filterVars, remoteVars, queryVars, guiVars>>

\* disconnect(): both fields are cleared, whatever they held
DisconnectCall ==
    /\ client' = Null
    /\ connection' = Null
    /\ pending' = { [c EXCEPT !.alone = FALSE] : c \in pending }
    /\ last' = Event("disconnect", IF last.call = "disconnect" THEN 2 ELSE 1,
                     "returned", <<>>, 0, NoTarget)
    /\ sinceDisconnect' = TRUE
    /\ lastGood' = NoGood
    /\ UNCHANGED nextId

\* a disconnect that clears the connection record only
DisconnectKeepsClient ==
    /\ connection' = Null
    /\ pending' = { [c EXCEPT !.alone = FALSE] : c \in pending }
    /\ last' = Event("disconnect", IF last.call = "disconnect" THEN 2 ELSE 1,
                     "returned", <<>>, 0, NoTarget)
    /\ sinceDisconnect' = TRUE
    /\ lastGood' = NoGood
    /\ UNCHANGED <<client, nextId>>
    /\ UNCHANGED <<viewerVars, filterVars, remoteVars, queryVars, guiVars>>

\* a disconnect that clears the session only when one is connected
DisconnectIfConnected ==
    /\ client' = IF isConnected THEN Null ELSE client
    /\ connection' = IF isConnected THEN Null ELSE connection
    /\ pending' = { [c EXCEPT !.alone = FALSE] : c \in pending }
    /\ last' = Event("disconnect", IF last.call = "disconnect" THEN 2 ELSE 1,
                     "returned", <<>>, 0, NoTarget)
    /\ sinceDisconnect' = TRUE
    /\ lastGood' = NoGood
    /\ UNCHANGED nextId
    /\ UNCHANGED <<viewerVars, filterVars, remoteVars, queryVars, guiVars>>

Disconnect ==
    /\ DisconnectCall
    /\ UNCHANGED <<viewerVars, filterVars, remoteVars, queryVars, guiVars>>

\* an operation: the `!this.client` guard, then the remote call through this.client,
\* which succeeds or fails with e
Operation(op, ok, e) ==
    /\ last' =
         IF client = Null
         THEN Event(op, 0, "threw", NotConnected, 0, NoTarget)
         ELSE IF ok
              THEN Event(op, 0, "returned", <<>>, client[1].by, NoTarget)
              ELSE Event(op, 0, "threw", <<OpFailurePrefix(op), ErrorMessage(e)>>,
                         client[1].by, NoTarget)
    /\ UNCHANGED <<client, connection, pending, nextId, sinceDisconnect, lastGood>>
    /\ UNCHANGED <<viewerVars, filterVars, remoteVars, queryVars, guiVars>>

-----------------------------------------------------------------------------
(* DocumentViewer: requests and normalization *)

documentsPerPage == 20

MaxFetches == 2

MaxFilters == 2

MaxViewerFilters == 1

SearchTypes == { "text", "semantic", "regex", "id", "metadata" }

Operators == { "equals", "contains", "greater", "less" }

\* what the user can type in the search box, in a clause's field and in its value
Terms == { "", "ml" }

Fields == { "", "a", "b" }

Values == { "", "1" }

\* what the user types and selects in the mounted viewer's metadata tab
ViewerFields == { "", "a" }

ViewerOperators == { "equals", "greater" }

ViewerValues == { "", "1" }

\* what collection.count() can answer
Counts == { 0, 25 }

Clause(f, o, v) == [field |-> f, operator |-> o, value |-> v, type |-> "string"]

Clauses == { Clause(f, o, v) : f \in Fields, o \in Operators, v \in Values }

\* the lists of at most n elements of S
RECURSIVE ListsUpTo(_, _)
ListsUpTo(S, n) ==
    IF n = 0 THEN { <<>> }
    ELSE LET shorter == ListsUpTo(S, n - 1) IN
         shorter \cup { Append(l, x) : l \in { m \in shorter : Len(m) = n - 1 }, x \in S }

\* a JS object is a function from its keys; {} is the function with no key
EmptyObject == [k \in {} |-> <<>>]

\* obj[k] = v
Put(obj, k, v) == [x \in DOMAIN obj \cup {k} |-> IF x = k THEN v ELSE obj[x]]

\* a filter value: the bare value (key "") or an operator object such as {$gt: value}
Entry(key, v) == [key |-> key, value |-> v]

\* a clause is kept as soon as its field is filled in
AddClauseFieldOnly(whereClause, filter) ==
    IF filter.field # ""
    THEN CASE filter.operator = "equals" ->
                Put(whereClause, filter.field, Entry("", filter.value))
           [] filter.operator = "contains" ->
                Put(whereClause, filter.field, Entry("$contains", filter.value))
           [] filter.operator = "greater" ->
                Put(whereClause, filter.field, Entry("$gt", filter.value))
           [] filter.operator = "less" ->
                Put(whereClause, filter.field, Entry("$lt", filter.value))
           [] OTHER -> whereClause
    ELSE whereClause

\* the switch on filter.operator; an operator it does not list assigns nothing
AddClause(whereClause, filter) ==
    IF filter.field # "" /\ filter.value # ""
    THEN CASE filter.operator = "equals" ->
                Put(whereClause, filter.field, Entry("", filter.value))
           [] filter.operator = "contains" ->
                Put(whereClause, filter.field, Entry("$contains", filter.value))
           [] filter.operator = "greater" ->
                Put(whereClause, filter.field, Entry("$gt", filter.value))
           [] filter.operator = "less" ->
                Put(whereClause, filter.field, Entry("$lt", filter.value))
           [] OTHER -> whereClause
    ELSE whereClause

\* filters.forEach(...) over whereClause, in list order
RECURSIVE BuildWhere(_, _)
BuildWhere(filters, whereClause) ==
    IF filters = <<>> THEN whereClause
    ELSE BuildWhere(Tail(filters), AddClause(whereClause, Head(filters)))

\* the argument of collection.get / collection.query; an absent key is null
Request(op, where, whereDocument, ids, queryTexts, limit, offset, nResults) ==
    [op |-> op, where |-> where, whereDocument |-> whereDocument, ids |-> ids,
     queryTexts |-> queryTexts, limit |-> limit, offset |-> offset,
     nResults |-> nResults]

NoRequest == Request("none", Null, Null, Null, Null, Null, Null, Null)

PageOffset(page) == (page - 1) * documentsPerPage

\* the where object is sent as built, also when it has no key
MetadataRequestEmptyWhere(filters, page) ==
    LET whereClause == BuildWhere(filters, EmptyObject) IN
    Request("get", Some(whereClause), Null, Null, Null,
            Some(documentsPerPage), Some(PageOffset(page)), Null)

\* the metadata branch's get request
MetadataRequest(filters, page) ==
    LET whereClause == BuildWhere(filters, EmptyObject) IN
    Request("get",
            IF Cardinality(DOMAIN whereClause) > 0 THEN Some(whereClause) ELSE Null,
            Null, Null, Null,
            Some(documentsPerPage), Some(PageOffset(page)), Null)

\* the request fetchDocuments(page, search, type, filters) sends
FetchRequest(page, search, type, filters) ==
    IF search # "" /\ type = "semantic"
    THEN Request("query", Null, Null, Null, Some(<<search>>), Null, Null,
                 Some(documentsPerPage))
    ELSE IF search # "" /\ type = "text"
    THEN Request("get", Null, Some(Entry("$contains", search)), Null, Null,
                 Some(documentsPerPage), Some(PageOffset(page)), Null)
    ELSE IF search # "" /\ type = "metadata"
    THEN MetadataRequest(filters, page)
    ELSE IF search # "" /\ type = "id"
    THEN Request("get", Null, Null, Some(<<search>>), Null,
                 Some(documentsPerPage), Null, Null)
    ELSE Request("get", Null, Null, Null, Null,
                 Some(documentsPerPage), Some(PageOffset(page)), Null)

Meta == [category |-> "greeting"]

\* responses of collection.get: flat arrays, whose entries may be null or missing
FlatResponses ==
    { [ids |-> Some(<<>>), documents |-> Some(<<>>), metadatas |-> Some(<<>>)],
      [ids |-> Some(<<"d1", "d2">>), documents |-> Some(<<Some("hello world")>>),
       metadatas |-> Some(<<Some(Meta), Null>>)] }

\* responses of collection.query: one inner array per query text
NestedResponses ==
    { [ids |-> Some(<< <<>> >>), documents |-> Some(<< <<>> >>),
       metadatas |-> Some(<< <<>> >>), distances |-> Some(<< <<>> >>)],
      [ids |-> Some(<< <<"d4">> >>), documents |-> Some(<< <<Some("ml intro")>> >>),
       metadatas |-> Null, distances |-> Some(<< <<5>> >>)] }

Document(id, content, metadata) == [id |-> id, content |-> content, metadata |-> metadata]

\* arr?.[i], for arr null or an array whose elements may be null
At(arr, i) == IF arr # Null /\ i \in DOMAIN arr[1] THEN arr[1][i] ELSE Null

\* String(x): a missing text becomes the word
OrEmptyAsString(x) == IF x # Null THEN x[1] ELSE "undefined"

\* x || '' for a string or null
OrEmpty(x) == IF x # Null THEN x[1] ELSE ""

NormalizeFlat(results) ==
    IF results.ids # Null /\ Len(results.ids[1]) > 0
    THEN [i \in 1..Len(results.ids[1]) |->
            Document(results.ids[1][i],
                     OrEmpty(At(results.documents, i)),
                     At(results.metadatas, i))]
    ELSE <<>>

\* arr?.[0], for arr null or an array of arrays
Inner(arr) == IF arr # Null /\ Len(arr[1]) > 0 THEN Some(arr[1][1]) ELSE Null

NormalizeNested(results) ==
    IF results.ids # Null /\ Inner(results.ids) # Null
          /\ Len(Inner(results.ids)[1]) > 0
    THEN [i \in 1..Len(Inner(results.ids)[1]) |->
            Document(Inner(results.ids)[1][i],
                     OrEmpty(At(Inner(results.documents), i)),
                     At(Inner(results.metadatas), i))]
    ELSE <<>>

Responses(request) == IF request.op = "query" THEN NestedResponses ELSE FlatResponses

Normalize(request, results) ==
    IF request.op = "query" THEN NormalizeNested(results) ELSE NormalizeFlat(results)

\* err instanceof Error ? err.message : 'Failed to fetch documents'
FetchErrorMessage(e) == IF e.isError THEN e.message ELSE "Failed to fetch documents"

totalPages == (totalDocuments + documentsPerPage - 1) \div documentsPerPage

-----------------------------------------------------------------------------
(* DocumentViewer: state and handlers *)

\* a fetchDocuments call: its arguments, who called it (cause), what getClient()
\* returned when it was called, the await it is suspended at, and (history) the
\* documents and the total shown when it was called
Fetch(id, cause, page, search, type, filters, hasClient) ==
    [id |-> id, cause |-> cause, page |-> page, search |-> search, type |-> type,
     filters |-> filters, hasClient |-> hasClient, pc |-> "getCollection",
     documentsBefore |-> documents, totalBefore |-> totalDocuments]

\* nothing has been submitted: the mount effect lists the first page
NoneSubmitted == [search |-> "", type |-> "text", filters |-> <<>>]

NoSent == [id |-> 0, cause |-> "", page |-> 0, search |-> "", type |-> "", filters |-> <<>>,
           request |-> NoRequest]

NoArrival == [id |-> 0, request |-> NoRequest, results |-> Null]

NoDone == [id |-> 0, count |-> Null]

\* the state after the first render: the mount effect has called
\* fetchDocuments(1, '', 'text', [])
ViewerInit ==
    /\ documents = <<>>
    /\ loading = TRUE
    /\ error = Null
    /\ currentPage = 1
    /\ totalDocuments = 0
    /\ searchTerm = ""
    /\ searchType = "text"
    /\ metadataFilters = <<>>
    /\ fetches = { Fetch(1, "effect", 1, "", "text", <<>>, client # Null) }
    /\ nextFetch = 2
    /\ lastSent = NoSent
    /\ lastArrived = NoArrival
    /\ newestApplied = 0
    /\ lastDone = NoDone
    /\ submitted = NoneSubmitted

\* the viewer is not mounted
ViewerIdle ==
    /\ documents = <<>>
    /\ loading = TRUE
    /\ error = Null
    /\ currentPage = 1
    /\ totalDocuments = 0
    /\ searchTerm = ""
    /\ searchType = "text"
    /\ metadataFilters = <<>>
    /\ fetches = {}
    /\ nextFetch = 1
    /\ lastSent = NoSent
    /\ lastArrived = NoArrival
    /\ newestApplied = 0
    /\ lastDone = NoDone
    /\ submitted = NoneSubmitted

\* fetchDocuments up to its first await, called n times with the same arguments:
\* by the handler `cause` and, when n is 2, by the page effect after it
StartFetches(n, cause, page, search, type, filters) ==
    /\ nextFetch + n - 1 <= MaxFetches
    /\ loading' = TRUE
    /\ error' = Null
    /\ fetches' = fetches \cup
         { Fetch(id, IF id = nextFetch THEN cause ELSE "effect",
                 page, search, type, filters, getClient # Null) :
             id \in nextFetch .. (nextFetch + n - 1) }
    /\ nextFetch' = nextFetch + n
    /\ submitted' = IF cause \in { "search", "refresh" }
                     THEN [search |-> search, type |-> type, filters |-> filters]
                     ELSE submitted

\* the search box, present in every tab but the metadata tab
SetSearchTerm(t) ==
    /\ searchType # "metadata"
    /\ searchTerm # t
    /\ searchTerm' = t
    /\ UNCHANGED <<documents, loading, error, currentPage, totalDocuments, searchType,
                   metadataFilters, fetches, nextFetch, lastSent, lastArrived,
                   newestApplied>>
    /\ UNCHANGED <<lastDone, submitted, svcVars, filterVars, remoteVars,
                   queryVars, guiVars>>

\* the tabs' onValueChange
SetSearchType(ty) ==
    /\ searchType # ty
    /\ searchType' = ty
    /\ UNCHANGED <<documents, loading, error, currentPage, totalDocuments, searchTerm,
                   metadataFilters, fetches, nextFetch, lastSent, lastArrived,
                   newestApplied>>
    /\ UNCHANGED <<lastDone, submitted, svcVars, filterVars, remoteVars,
                   queryVars, guiVars>>

addMetadataFilter ==
    /\ searchType = "metadata"
    /\ Len(metadataFilters) < MaxViewerFilters
    /\ metadataFilters' = Append(metadataFilters, Clause("", "equals", ""))
    /\ UNCHANGED <<documents, loading, error, currentPage, totalDocuments, searchTerm,
                   searchType, fetches, nextFetch, lastSent, lastArrived, newestApplied>>
    /\ UNCHANGED <<lastDone, submitted, svcVars, filterVars, remoteVars,
                   queryVars, guiVars>>

removeMetadataFilter(index) ==
    /\ searchType = "metadata"
    /\ index \in DOMAIN metadataFilters
    /\ metadataFilters' =
         SubSeq(metadataFilters, 1, index - 1)
           \o SubSeq(metadataFilters, index + 1, Len(metadataFilters))
    /\ UNCHANGED <<documents, loading, error, currentPage, totalDocuments, searchTerm,
                   searchType, fetches, nextFetch, lastSent, lastArrived, newestApplied>>
    /\ UNCHANGED <<lastDone, submitted, svcVars, filterVars, remoteVars,
                   queryVars, guiVars>>

\* newFilters[index] = {...newFilters[index], [field]: value}
updateMetadataFilter(index, field, value) ==
    /\ searchType = "metadata"
    /\ index \in DOMAIN metadataFilters
    /\ \/ field = "field" /\ value \in ViewerFields
       \/ field = "operator" /\ value \in ViewerOperators
       \/ field = "value" /\ value \in ViewerValues
    /\ metadataFilters[index][field] # value
    /\ metadataFilters' = [metadataFilters EXCEPT ![index][field] = value]
    /\ UNCHANGED <<documents, loading, error, currentPage, totalDocuments, searchTerm,
                   searchType, fetches, nextFetch, lastSent, lastArrived, newestApplied>>
    /\ UNCHANGED <<lastDone, submitted, svcVars, filterVars, remoteVars,
                   queryVars, guiVars>>

\* Search (a button, or Enter in the search box); the metadata tab's button is
\* disabled while there is no clause. When the page was not 1, setCurrentPage(1)
\* re-runs the page effect, which calls fetchDocuments with the same arguments again.
handleSearch ==
    /\ searchType = "metadata" => Len(metadataFilters) > 0
    /\ currentPage' = 1
    /\ StartFetches(IF currentPage # 1 THEN 2 ELSE 1, "search",
                    1, searchTerm, searchType, metadataFilters)
    /\ UNCHANGED <<documents, totalDocuments, searchTerm, searchType, metadataFilters,
                   lastSent, lastArrived, newestApplied>>
    /\ UNCHANGED <<lastDone, svcVars, filterVars, remoteVars, queryVars, guiVars>>

handleRefresh ==
    /\ StartFetches(1, "refresh", currentPage, searchTerm, searchType, metadataFilters)
    /\ UNCHANGED <<documents, currentPage, totalDocuments, searchTerm, searchType,
                   metadataFilters, lastSent, lastArrived, newestApplied>>
    /\ UNCHANGED <<lastDone, svcVars, filterVars, remoteVars, queryVars, guiVars>>

\* the pages the pagination controls offer: Previous, the numbered buttons, Next
OfferedPages ==
    IF ~loading /\ documents # <<>> /\ totalPages > 1
    THEN { p \in { currentPage - 1 } : currentPage # 1 }
           \cup 1 .. (IF totalPages < 5 THEN totalPages ELSE 5)
           \cup { p \in { currentPage + 1 } : currentPage # totalPages }
    ELSE {}

\* handlePageChange, and the page effect it triggers
handlePageChange(page) ==
    /\ page \in OfferedPages
    /\ page # currentPage
    /\ currentPage' = page
    /\ StartFetches(1, "effect", page, searchTerm, searchType, metadataFilters)
    /\ UNCHANGED <<documents, totalDocuments, searchTerm, searchType, metadataFilters,
                   lastSent, lastArrived, newestApplied>>
    /\ UNCHANGED <<lastDone, svcVars, filterVars, remoteVars, queryVars, guiVars>>

\* fetchDocuments ends: the catch block (msg # Null) and the finally block
EndFetch(f, msg) ==
    /\ fetches' = fetches \ {f}
    /\ error' = IF msg # Null THEN msg ELSE error
    /\ loading' = FALSE

\* getCollection resolved: the branch's get or query request is sent
GetCollectionResolve(f) ==
    /\ f \in fetches /\ f.pc = "getCollection" /\ f.hasClient
    /\ fetches' = (fetches \ {f}) \cup { [f EXCEPT !.pc = "request"] }
    /\ lastSent' = [id |-> f.id, cause |-> f.cause, page |-> f.page, search |-> f.search, type |-> f.type,
                    filters |-> f.filters,
                    request |-> FetchRequest(f.page, f.search, f.type, f.filters)]
    /\ UNCHANGED <<documents, loading, error, currentPage, totalDocuments, searchTerm,
                   searchType, metadataFilters, nextFetch, lastArrived, newestApplied>>
    /\ UNCHANGED <<lastDone, submitted, svcVars, filterVars, remoteVars,
                   queryVars, guiVars>>

\* getClient() was null: `await undefined`, then 'Collection not found'
GetCollectionMissing(f) ==
    /\ f \in fetches /\ f.pc = "getCollection" /\ ~f.hasClient
    /\ EndFetch(f, Some("Collection not found"))
    /\ UNCHANGED <<documents, currentPage, totalDocuments, searchTerm, searchType,
                   metadataFilters, nextFetch, lastSent, lastArrived, newestApplied>>
    /\ UNCHANGED <<lastDone, submitted, svcVars, filterVars, remoteVars,
                   queryVars, guiVars>>

GetCollectionReject(f, e) ==
    /\ f \in fetches /\ f.pc = "getCollection" /\ f.hasClient
    /\ EndFetch(f, Some(FetchErrorMessage(e)))
    /\ UNCHANGED <<documents, currentPage, totalDocuments, searchTerm, searchType,
                   metadataFilters, nextFetch, lastSent, lastArrived, newestApplied>>
    /\ UNCHANGED <<lastDone, submitted, svcVars, filterVars, remoteVars,
                   queryVars, guiVars>>

\* a request-generation guard: only the latest call's response is shown
RequestResolveLatestOnly(f, results) ==
    /\ f \in fetches /\ f.pc = "request"
    /\ LET request == FetchRequest(f.page, f.search, f.type, f.filters) IN
       /\ results \in Responses(request)
       /\ documents' = IF f.id = nextFetch - 1 THEN Normalize(request, results)
                                               ELSE documents
       /\ lastArrived' = [id |-> f.id, request |-> request, results |-> Some(results)]
    /\ fetches' = (fetches \ {f}) \cup { [f EXCEPT !.pc = "count"] }
    /\ newestApplied' = IF f.id > newestApplied THEN f.id ELSE newestApplied
    /\ UNCHANGED <<loading, error, currentPage, totalDocuments, searchTerm, searchType,
                   metadataFilters, nextFetch, lastSent>>
    /\ UNCHANGED <<lastDone, submitted, svcVars, filterVars, remoteVars,
                   queryVars, guiVars>>

\* the get or query resolved: setDocuments(docs), then collection.count() is called
RequestResolve(f, results) ==
    /\ f \in fetches /\ f.pc = "request"
    /\ LET request == FetchRequest(f.page, f.search, f.type, f.filters) IN
       /\ results \in Responses(request)
       /\ documents' = Normalize(request, results)
       /\ lastArrived' = [id |-> f.id, request |-> request, results |-> Some(results)]
    /\ fetches' = (fetches \ {f}) \cup { [f EXCEPT !.pc = "count"] }
    /\ newestApplied' = IF f.id > newestApplied THEN f.id ELSE newestApplied
    /\ UNCHANGED <<loading, error, currentPage, totalDocuments, searchTerm, searchType,
                   metadataFilters, nextFetch, lastSent>>
    /\ UNCHANGED <<lastDone, submitted, svcVars, filterVars, remoteVars,
                   queryVars, guiVars>>

RequestReject(f, e) ==
    /\ f \in fetches /\ f.pc = "request"
    /\ EndFetch(f, Some(FetchErrorMessage(e)))
    /\ UNCHANGED <<documents, currentPage, totalDocuments, searchTerm, searchType,
                   metadataFilters, nextFetch, lastSent, lastArrived, newestApplied>>
    /\ UNCHANGED <<lastDone, submitted, svcVars, filterVars, remoteVars,
                   queryVars, guiVars>>

CountResolve(f, count) ==
    /\ f \in fetches /\ f.pc = "count"
    /\ totalDocuments' = count
    /\ EndFetch(f, Null)
    /\ lastDone' = [id |-> f.id, count |-> Some(count)]
    /\ UNCHANGED <<documents, currentPage, searchTerm, searchType, metadataFilters,
                   nextFetch, lastSent, lastArrived, newestApplied>>
    /\ UNCHANGED <<submitted, svcVars, filterVars, remoteVars,
                   queryVars, guiVars>>

CountReject(f, e) ==
    /\ f \in fetches /\ f.pc = "count"
    /\ EndFetch(f, Some(FetchErrorMessage(e)))
    /\ UNCHANGED <<documents, currentPage, totalDocuments, searchTerm, searchType,
                   metadataFilters, nextFetch, lastSent, lastArrived, newestApplied>>
    /\ UNCHANGED <<lastDone, submitted, svcVars, filterVars, remoteVars,
                   queryVars, guiVars>>

-----------------------------------------------------------------------------
(* The DocumentViewer of components/documents/document-viewer.tsx: one search box, *)
(* no search types. It keeps the state of the viewer above; searchType and         *)
(* metadataFilters stay at their initial values.                                   *)

\* the request fetchDocuments(page, search) sends
BasicFetchRequest(page, search) ==
    IF search # ""
    THEN Request("query", Null, Null, Null, Some(<<search>>), Null, Null,
                 Some(documentsPerPage))
    ELSE Request("get", Null, Null, Null, Null,
                 Some(documentsPerPage), Some(PageOffset(page)), Null)

\* the early return that replaces the whole view by a spinner
BasicSpinner == loading /\ currentPage = 1

BasicSetSearchTerm(t) ==
    /\ ~BasicSpinner
    /\ searchTerm # t
    /\ searchTerm' = t
    /\ UNCHANGED <<documents, loading, error, currentPage, totalDocuments, searchType,
                   metadataFilters, fetches, nextFetch, lastSent, lastArrived,
                   newestApplied, lastDone>>
    /\ UNCHANGED <<submitted, svcVars, filterVars, remoteVars,
                   queryVars, guiVars>>

\* handleSearch, and the page effect it triggers when the page was not 1
BasicHandleSearch ==
    /\ ~BasicSpinner
    /\ currentPage' = 1
    /\ StartFetches(IF currentPage # 1 THEN 2 ELSE 1, "search", 1, searchTerm, "text", <<>>)
    /\ UNCHANGED <<documents, totalDocuments, searchTerm, searchType, metadataFilters,
                   lastSent, lastArrived, newestApplied, lastDone>>
    /\ UNCHANGED <<svcVars, filterVars, remoteVars, queryVars, guiVars>>

BasicHandleRefresh ==
    /\ ~BasicSpinner
    /\ StartFetches(1, "refresh", currentPage, searchTerm, "text", <<>>)
    /\ UNCHANGED <<documents, currentPage, totalDocuments, searchTerm, searchType,
                   metadataFilters, lastSent, lastArrived, newestApplied, lastDone>>
    /\ UNCHANGED <<svcVars, filterVars, remoteVars, queryVars, guiVars>>

\* the pages the Previous and Next buttons lead to
BasicOfferedPages ==
    IF ~BasicSpinner /\ ~(documents = <<>> /\ ~loading) /\ totalPages > 1
    THEN { p \in { currentPage - 1 } : currentPage # 1 }
           \cup { p \in { currentPage + 1 } : currentPage # totalPages }
    ELSE {}

\* handlePageChange, and the page effect it triggers
BasicHandlePageChange(page) ==
    /\ page \in BasicOfferedPages
    /\ currentPage' = page
    /\ StartFetches(1, "effect", page, searchTerm, "text", <<>>)
    /\ UNCHANGED <<documents, totalDocuments, searchTerm, searchType, metadataFilters,
                   lastSent, lastArrived, newestApplied, lastDone>>
    /\ UNCHANGED <<svcVars, filterVars, remoteVars, queryVars, guiVars>>

\* getCollection resolved: the query or the get request is sent
BasicGetCollectionResolve(f) ==
    /\ f \in fetches /\ f.pc = "getCollection" /\ f.hasClient
    /\ fetches' = (fetches \ {f}) \cup { [f EXCEPT !.pc = "request"] }
    /\ lastSent' = [id |-> f.id, cause |-> f.cause, page |-> f.page, search |-> f.search,
                    type |-> f.type, filters |-> f.filters,
                    request |-> BasicFetchRequest(f.page, f.search)]
    /\ UNCHANGED <<documents, loading, error, currentPage, totalDocuments, searchTerm,
                   searchType, metadataFilters, nextFetch, lastArrived, newestApplied,
                   lastDone>>
    /\ UNCHANGED <<submitted, svcVars, filterVars, remoteVars,
                   queryVars, guiVars>>

\* the query resolved: setDocuments(docs), setTotalDocuments(docs.length),
\* setLoading(false) and return; or the get resolved: setDocuments(docs), then
\* collection.count() is called
BasicRequestResolve(f, results) ==
    /\ f \in fetches /\ f.pc = "request"
    /\ LET request == BasicFetchRequest(f.page, f.search)
           docs == Normalize(request, results) IN
       /\ results \in Responses(request)
       /\ documents' = docs
       /\ lastArrived' = [id |-> f.id, request |-> request, results |-> Some(results)]
       /\ IF f.search # ""
          THEN /\ totalDocuments' = Len(docs)
               /\ loading' = FALSE
               /\ fetches' = fetches \ {f}
               /\ lastDone' = [id |-> f.id, count |-> Null]
          ELSE /\ fetches' = (fetches \ {f}) \cup { [f EXCEPT !.pc = "count"] }
               /\ UNCHANGED <<totalDocuments, loading, lastDone>>
    /\ newestApplied' = IF f.id > newestApplied THEN f.id ELSE newestApplied
    /\ UNCHANGED <<error, currentPage, searchTerm, searchType, metadataFilters,
                   nextFetch, lastSent>>
    /\ UNCHANGED <<submitted, svcVars, filterVars, remoteVars,
                   queryVars, guiVars>>

-----------------------------------------------------------------------------
(* The metadata branch as a function of the clause list *)

FilterIdle ==
    /\ input = [filters |-> <<>>, page |-> 1]
    /\ built = Null

FilterInit ==
    /\ input \in [filters : ListsUpTo(Clauses, MaxFilters), page : {1, 2}]
    /\ built = Null

BuildMetadataRequest ==
    /\ built = Null
    /\ built' = Some(MetadataRequest(input.filters, input.page))
    /\ UNCHANGED input
    /\ UNCHANGED <<svcVars, viewerVars, remoteVars, queryVars, guiVars>>

-----------------------------------------------------------------------------
(* Documents: addDocument, updateDocument, deleteDocument and the get-by-id of the *)
(* viewer's ID tab, over a remote collection that keeps what it is sent            *)

MaxStored == 2

\* what `doc_${Date.now()}_${Math.random()...}` can give
DocIds == { "doc_1", "doc_2" }

Contents == { "", "hello world" }

\* Document.metadata: omitted, {} or a mapping
Metadatas == { Null, Some(EmptyObject), Some(Meta) }

Row(id, document, metadata) == [id |-> id, document |-> document, metadata |-> metadata]

StoredIds == { r.id : r \in stored }

\* the metadata is sent as given, omitted when it is omitted
OrEmptyObjectAsGiven(m) == m

\* document.metadata || {}
OrEmptyObject(m) == IF m # Null THEN m ELSE Some(EmptyObject)

\* collection.add({ids: [id], documents: [content], metadatas: [metadata]})
RemoteAdd(rows, id, content, metadata) ==
    IF id \in { r.id : r \in rows } THEN rows
    ELSE rows \cup { Row(id, content, metadata) }

\* collection.update({ids: [id], documents: [content], metadatas: [metadata]})
RemoteUpdate(rows, id, content, metadata) ==
    { IF r.id = id THEN Row(id, content, metadata) ELSE r : r \in rows }

\* collection.delete({ids: [id]})
RemoteDelete(rows, id) == { r \in rows : r.id # id }

\* collection.get({ids: [id], limit}): flat arrays over the rows with that id
RemoteGet(rows, id) ==
    IF id \in { r.id : r \in rows }
    THEN LET r == CHOOSE x \in rows : x.id = id IN
         [ids |-> Some(<<r.id>>), documents |-> Some(<<Some(r.document)>>),
          metadatas |-> Some(<<r.metadata>>)]
    ELSE [ids |-> Some(<<>>), documents |-> Some(<<>>), metadatas |-> Some(<<>>)]

RemoteInit ==
    /\ stored \in { {}, { Row("doc_1", "old", Some(Meta)) } }
    /\ added = Null
    /\ fetched = Null
    /\ listing = Null
    /\ shown = <<>>

\* the listing in flight, if any, overlaps a write to the collection
Disturbed == IF listing # Null THEN Some([listing[1] EXCEPT !.clean = FALSE]) ELSE listing

\* the id under study was written by this call
Mutated(id) ==
    IF added # Null /\ added[1].id = id
    THEN Some([added[1] EXCEPT !.mutated = TRUE])
    ELSE added

\* addDocument: the guard, a fresh id, collection.add, and the id returned
addDocument(document, id, ok, e) ==
    /\ Cardinality(stored) < MaxStored
    /\ id \in DocIds \ StoredIds
    /\ IF client = Null
       THEN /\ last' = Event("addDocument", 0, "threw", NotConnected, 0, NoTarget)
            /\ UNCHANGED <<stored, added, fetched, listing, shown>>
       ELSE IF ok
       THEN /\ stored' = RemoteAdd(stored, id, document.content,
                                   OrEmptyObject(document.metadata))
            /\ added' = Some([id |-> id, content |-> document.content,
                              metadata |-> document.metadata, mutated |-> FALSE])
            /\ listing' = Disturbed
            /\ shown' = <<>>
            /\ fetched' = Null
            /\ last' = Event("addDocument", 0, "returned", <<>>, client[1].by, NoTarget)
       ELSE /\ last' = Event("addDocument", 0, "threw",
                             <<OpFailurePrefix("addDocument"), ErrorMessage(e)>>,
                             client[1].by, NoTarget)
            /\ UNCHANGED <<stored, added, fetched, listing, shown>>
    /\ UNCHANGED <<client, connection, pending, nextId, sinceDisconnect, lastGood>>
    /\ UNCHANGED <<viewerVars, filterVars, queryVars, guiVars>>

\* updateDocument: the guard, then collection.update
updateDocument(document, ok, e) ==
    /\ IF client = Null
       THEN /\ last' = Event("updateDocument", 0, "threw", NotConnected, 0, NoTarget)
            /\ UNCHANGED <<stored, added, listing, shown>>
       ELSE IF ok
       THEN /\ stored' = RemoteUpdate(stored, document.id, document.content,
                                      OrEmptyObject(document.metadata))
            /\ added' = Mutated(document.id)
            /\ listing' = Disturbed
            /\ shown' = <<>>
            /\ last' = Event("updateDocument", 0, "returned", <<>>, client[1].by, NoTarget)
       ELSE /\ last' = Event("updateDocument", 0, "threw",
                             <<OpFailurePrefix("updateDocument"), ErrorMessage(e)>>,
                             client[1].by, NoTarget)
            /\ UNCHANGED <<stored, added, listing, shown>>
    /\ UNCHANGED fetched
    /\ UNCHANGED <<client, connection, pending, nextId, sinceDisconnect, lastGood>>
    /\ UNCHANGED <<viewerVars, filterVars, queryVars, guiVars>>

\* deleteDocument: the guard, then collection.delete
deleteDocument(documentId, ok, e) ==
    /\ IF client = Null
       THEN /\ last' = Event("deleteDocument", 0, "threw", NotConnected, 0, NoTarget)
            /\ UNCHANGED <<stored, added, listing, shown>>
       ELSE IF ok
       THEN /\ stored' = RemoteDelete(stored, documentId)
            /\ added' = Mutated(documentId)
            /\ listing' = Disturbed
            /\ shown' = <<>>
            /\ last' = Event("deleteDocument", 0, "returned", <<>>, client[1].by, NoTarget)
       ELSE /\ last' = Event("deleteDocument", 0, "threw",
                             <<OpFailurePrefix("deleteDocument"), ErrorMessage(e)>>,
                             client[1].by, NoTarget)
            /\ UNCHANGED <<stored, added, listing, shown>>
    /\ UNCHANGED fetched
    /\ UNCHANGED <<client, connection, pending, nextId, sinceDisconnect, lastGood>>
    /\ UNCHANGED <<viewerVars, filterVars, queryVars, guiVars>>

\* the viewer's ID branch for the search term id, from getCollection to setDocuments
GetById(id) ==
    /\ fetched' =
         IF getClient = Null
         THEN Some([id |-> id, error |-> Some("Collection not found"), docs |-> <<>>])
         ELSE Some([id |-> id, error |-> Null,
                    docs |-> NormalizeFlat(RemoteGet(stored, id))])
    /\ UNCHANGED <<stored, added, listing, shown>>
    /\ UNCHANGED <<svcVars, viewerVars, filterVars, queryVars, guiVars>>

ListedPages == { 1, 2 }

\* the order in which the server returns the rows: some fixed order of them
ServerRows(rows) ==
    CHOOSE l \in [1..Cardinality(rows) -> rows] :
        \A r \in rows : \E i \in 1..Cardinality(rows) : l[i] = r

\* collection.get({limit, offset}): flat arrays over at most limit rows after the
\* first offset ones
RemoteList(rows, limit, offset) ==
    LET all == ServerRows(rows)
        to == IF offset + limit < Len(all) THEN offset + limit ELSE Len(all)
        part == IF offset < Len(all) THEN SubSeq(all, offset + 1, to) ELSE <<>>
    IN  [ids |-> Some([i \in DOMAIN part |-> part[i].id]),
         documents |-> Some([i \in DOMAIN part |-> Some(part[i].document)]),
         metadatas |-> Some([i \in DOMAIN part |-> part[i].metadata])]

\* the two latest of a list
LastTwo(list) == IF Len(list) > 2 THEN SubSeq(list, Len(list) - 1, Len(list)) ELSE list

\* the viewer's default listing of a page, up to the await of collection.get
ListStart(page) ==
    /\ listing = Null
    /\ getClient # Null
    /\ listing' = Some([page |-> page, pc |-> "request", documents |-> <<>>,
                        clean |-> TRUE])
    /\ UNCHANGED <<stored, added, fetched, shown>>
    /\ UNCHANGED <<svcVars, viewerVars, filterVars, queryVars, guiVars>>

\* a listing that adds the page it fetched to the documents already shown
ListGetResolveAppends ==
    /\ listing # Null /\ listing[1].pc = "request"
    /\ LET request == FetchRequest(listing[1].page, "", "text", <<>>) IN
       listing' = Some([listing[1] EXCEPT
                          !.pc = "count",
                          !.documents =
                              (IF shown # <<>> THEN shown[Len(shown)].documents ELSE <<>>)
                                \o NormalizeFlat(RemoteList(stored, request.limit[1],
                                                            request.offset[1]))])
    /\ UNCHANGED <<stored, added, fetched, shown>>
    /\ UNCHANGED <<svcVars, viewerVars, filterVars, queryVars, guiVars>>

\* collection.get answered: setDocuments with the normalized page
ListGetResolve ==
    /\ listing # Null /\ listing[1].pc = "request"
    /\ LET request == FetchRequest(listing[1].page, "", "text", <<>>) IN
       listing' = Some([listing[1] EXCEPT
                          !.pc = "count",
                          !.documents =
                              NormalizeFlat(RemoteList(stored, request.limit[1],
                                                       request.offset[1]))])
    /\ UNCHANGED <<stored, added, fetched, shown>>
    /\ UNCHANGED <<svcVars, viewerVars, filterVars, queryVars, guiVars>>

\* collection.count answered: setTotalDocuments, and the call is complete; shown
\* keeps what the completed listings displayed while no write overlapped them
ListCountResolve ==
    /\ listing # Null /\ listing[1].pc = "count"
    /\ shown' = IF listing[1].clean
                THEN LastTwo(Append(shown, [page |-> listing[1].page,
                                            documents |-> listing[1].documents,
                                            total |-> Cardinality(stored)]))
                ELSE <<>>
    /\ listing' = Null
    /\ UNCHANGED <<stored, added, fetched>>
    /\ UNCHANGED <<svcVars, viewerVars, filterVars, queryVars, guiVars>>

-----------------------------------------------------------------------------
(* getCollectionSchema as a function of the sampled response *)

MaxKeys == 2

vectorDimension == 1536

Keys == { "category", "tags", "n" }

\* a metadata value as JavaScript sees it
JsValues ==
    { [kind |-> "string",  value |-> "greeting"],
      [kind |-> "number",  value |-> "7"],
      [kind |-> "boolean", value |-> "true"],
      [kind |-> "array",   value |-> "['x']"],
      [kind |-> "object",  value |-> "{k: 1}"],
      [kind |-> "null",    value |-> "null"] }

\* Object.entries(metadata): key and value pairs in insertion order, keys distinct
EntryLists ==
    { l \in ListsUpTo([key : Keys, value : JsValues], MaxKeys) :
        \A i, j \in DOMAIN l : i # j => l[i].key # l[j].key }

\* what collection.get({limit: 1}) can answer: no metadatas array, an empty
\* collection, a document without metadata, a document with metadata
SampleResults ==
    [ metadatas : { Null, Some(<<>>), Some(<<Null>>) }
                    \cup { Some(<<Some(l)>>) : l \in EntryLists } ]

\* typeof value
TypeOf(value) ==
    CASE value.kind = "string"  -> "string"
      [] value.kind = "number"  -> "number"
      [] value.kind = "boolean" -> "boolean"
      [] value.kind = "array"   -> "object"
      [] value.kind = "object"  -> "object"
      [] value.kind = "null"    -> "object"

\* the private method, which getCollectionSchema does not call
inferFieldType(value) ==
    CASE value.kind = "array"   -> "array"
      [] value.kind = "object"  -> "object"
      [] value.kind = "string"  -> "string"
      [] value.kind = "number"  -> "number"
      [] value.kind = "boolean" -> "boolean"
      [] OTHER                  -> "string"

SchemaField(entry) ==
    [name |-> entry.key, type |-> TypeOf(entry.value),
     nullable |-> entry.value.kind = "null", sample |-> entry.value]

\* the fields pushed from results.metadatas[0]
InferFields(results) ==
    IF results.metadatas # Null /\ Len(results.metadatas[1]) > 0
          /\ results.metadatas[1][1] # Null
    THEN [i \in DOMAIN results.metadatas[1][1][1] |->
            SchemaField(results.metadatas[1][1][1][i])]
    ELSE <<>>

\* the dimension is left at 0 until a sampled document shows a field
CollectionSchemaUnknownDimension(collectionName, fields) ==
    [name |-> collectionName,
     vectorDimension |-> IF fields = <<>> THEN 0 ELSE vectorDimension,
     distanceFunction |-> "cosine", fields |-> fields]

CollectionSchema(collectionName, fields) ==
    [name |-> collectionName, vectorDimension |-> vectorDimension,
     distanceFunction |-> "cosine", fields |-> fields]

SchemaInit ==
    /\ input \in [collectionName : { "docs" }, results : SampleResults]
    /\ built = Null

\* getCollectionSchema: the guard, getCollection and get({limit: 1}), which succeed
\* with input.results or fail with e, and the schema returned
getCollectionSchema(ok, e) ==
    /\ built = Null
    /\ IF client = Null
       THEN /\ last' = Event("getCollectionSchema", 0, "threw", NotConnected, 0, NoTarget)
            /\ UNCHANGED built
       ELSE IF ok
       THEN /\ built' = Some(CollectionSchema(input.collectionName,
                                              InferFields(input.results)))
            /\ last' = Event("getCollectionSchema", 0, "returned", <<>>,
                             client[1].by, NoTarget)
       ELSE /\ last' = Event("getCollectionSchema", 0, "threw",
                             <<OpFailurePrefix("getCollectionSchema"), ErrorMessage(e)>>,
                             client[1].by, NoTarget)
            /\ UNCHANGED built
    /\ UNCHANGED input
    /\ UNCHANGED <<client, connection, pending, nextId, sinceDisconnect, lastGood>>
    /\ UNCHANGED <<viewerVars, remoteVars, queryVars, guiVars>>

-----------------------------------------------------------------------------
(* The heartbeat proxy route as a function of what the upstream fetch does *)

Statuses == { 200, 201, 204, 299, 300, 304, 400, 404, 500, 503 }

\* the text of an upstream body
Bodies ==
    { "{\"nanosecond heartbeat\":1}", "{ \"nanosecond heartbeat\" : 1 }", "null",
      "{\"error\":\"down\"}", "", "<html>Bad Gateway</html>",
      "{\"nanosecond heartbeat\":" }

\* what fetch() does: it rejects (the network failed), or resolves with a response
Upstreams ==
    [rejects : { TRUE }, status : { 0 }, body : { "" }]
      \cup [rejects : { FALSE }, status : Statuses, body : Bodies]

\* response.ok
IsOk(status) == status >= 200 /\ status <= 299

\* JSON.parse of a body text: null for a SyntaxError, else the value it denotes
JsonParse(text) ==
    CASE text = "{\"nanosecond heartbeat\":1}"     -> Some("object: nanosecond heartbeat = 1")
      [] text = "{ \"nanosecond heartbeat\" : 1 }" -> Some("object: nanosecond heartbeat = 1")
      [] text = "null"                             -> Some("null")
      [] text = "{\"topic\":\"ml\"}"               -> Some("object: topic = ml")
      [] text = "{\"error\":\"down\"}"             -> Some("object: error = down")
      [] text = "{\"error\":\"Failed to connect to ChromaDB\"}"
                                                   -> Some("object: error = Failed to connect to ChromaDB")
      [] OTHER                                     -> Null

\* JSON.stringify of a value
JsonStringify(value) ==
    CASE value = "object: nanosecond heartbeat = 1" -> "{\"nanosecond heartbeat\":1}"
      [] value = "null"                             -> "null"
      [] value = "object: error = down"             -> "{\"error\":\"down\"}"
      [] value = "object: error = Failed to connect to ChromaDB"
                                                    -> "{\"error\":\"Failed to connect to ChromaDB\"}"

\* NextResponse.json(data, {status})
JsonResponse(data, status) == [status |-> status, body |-> JsonStringify(data)]

\* the catch block's reply
ProxyFailure == JsonResponse("object: error = Failed to connect to ChromaDB", 500)

ProxyInit ==
    /\ input \in Upstreams
    /\ built = Null

\* the upstream's status is not looked at
GETAnyStatus ==
    /\ built = Null
    /\ built' =
         IF input.rejects THEN Some(ProxyFailure)
         ELSE IF JsonParse(input.body) = Null THEN Some(ProxyFailure)
         ELSE Some(JsonResponse(JsonParse(input.body)[1], 200))
    /\ UNCHANGED input
    /\ UNCHANGED <<svcVars, viewerVars, remoteVars, queryVars, guiVars>>

\* the route handler: fetch, the response.ok test, response.json(), and the reply
GET ==
    /\ built = Null
    /\ built' =
         IF input.rejects THEN Some(ProxyFailure)
         ELSE IF ~IsOk(input.status) THEN Some(ProxyFailure)
         ELSE IF JsonParse(input.body) = Null THEN Some(ProxyFailure)
         ELSE Some(JsonResponse(JsonParse(input.body)[1], 200))
    /\ UNCHANGED input
    /\ UNCHANGED <<svcVars, viewerVars, remoteVars, queryVars, guiVars>>

-----------------------------------------------------------------------------
(* Normalization as a function of the server's response *)

MaxIds == 2

Ids == { "d1", "d2" }

\* an array the server may leave out: null, or a list of at most MaxIds elements
OptionalLists(S) == { Null } \cup { Some(l) : l \in ListsUpTo(S, MaxIds) }

\* the same for the nested shape: null, no inner array, or one inner array
OptionalNested(S) ==
    { Null, Some(<<>>) } \cup { Some(<<l>>) : l \in ListsUpTo(S, MaxIds) }

\* what collection.get can answer
FlatResults ==
    [ ids : OptionalLists(Ids),
      documents : OptionalLists({ Null, Some(""), Some("hello world") }),
      metadatas : OptionalLists({ Null, Some(Meta) }) ]

\* what collection.query can answer
NestedResults ==
    [ ids : OptionalNested(Ids),
      documents : OptionalNested({ Null, Some("ml intro") }),
      metadatas : OptionalNested({ Null, Some(Meta) }),
      distances : OptionalNested({ Null, Some(5) }) ]

QueryResult(id, content, metadata, distance) ==
    [id |-> id, content |-> content, metadata |-> metadata, distance |-> distance]

\* x || 0 for a number or null
OrZero(x) == IF x # Null THEN x[1] ELSE 0

\* queryCollection's loop over results.ids[0]
QueryResults(results) ==
    IF results.ids # Null /\ Inner(results.ids) # Null
    THEN [i \in 1..Len(Inner(results.ids)[1]) |->
            QueryResult(Inner(results.ids)[1][i],
                        OrEmpty(At(Inner(results.documents), i)),
                        At(Inner(results.metadatas), i),
                        OrZero(At(Inner(results.distances), i)))]
    ELSE <<>>

NormalizeInit ==
    /\ input \in [shape : { "flat" }, results : FlatResults]
                   \cup [shape : { "nested" }, results : NestedResults]
    /\ built = Null

\* the get branches of the viewer and DocumentManager.fetchDocuments
NormalizeGet ==
    /\ built = Null
    /\ input.shape = "flat"
    /\ built' = Some([by |-> "get", docs |-> NormalizeFlat(input.results)])
    /\ UNCHANGED input
    /\ UNCHANGED <<svcVars, viewerVars, remoteVars, queryVars, guiVars>>

\* the semantic branch of the viewer
NormalizeQuery ==
    /\ built = Null
    /\ input.shape = "nested"
    /\ built' = Some([by |-> "semantic", docs |-> NormalizeNested(input.results)])
    /\ UNCHANGED input
    /\ UNCHANGED <<svcVars, viewerVars, remoteVars, queryVars, guiVars>>

\* queryCollection, from the response of collection.query on
NormalizeQueryCollection ==
    /\ built = Null
    /\ input.shape = "nested"
    /\ built' = Some([by |-> "queryCollection", docs |-> QueryResults(input.results)])
    /\ UNCHANGED input
    /\ UNCHANGED <<svcVars, viewerVars, remoteVars, queryVars, guiVars>>

-----------------------------------------------------------------------------
(* QueryInterface: handleQuery over the service's queryCollection *)

QueryTexts == { "cats", "dogs", "birds" }

\* what the where and whereDocument boxes may hold: nothing, JSON, or not JSON
WhereTexts == { "", "{\"topic\":\"ml\"}", "topic=ml" }

\* the form data handleSubmit passes on: queryText has at least one character and
\* nResults is between 1 and 100
QueryForms ==
    [queryText : QueryTexts, nResults : { 10 }, where : WhereTexts,
     whereDocument : WhereTexts]

\* what queryCollection can return
QueryAnswers ==
    { <<>>,
      <<QueryResult("d1", "ml intro", Null, 5)>>,
      <<QueryResult("d2", "", Some(Meta), 0), QueryResult("d1", "ml intro", Null, 5)>> }

\* `if (data.where)` and then a JSON.parse that throws
InvalidJson(filterText) == filterText # "" /\ JsonParse(filterText) = Null

\* queryHistory.includes(x)
Includes(list, x) == \E i \in DOMAIN list : list[i] = x

\* prev.slice(0, 4)
FirstFour(list) == SubSeq(list, 1, IF Len(list) < 4 THEN Len(list) ELSE 4)

\* err instanceof Error ? err.message : 'Query failed'; whatever the service throws
\* is an Error
QueryFailure(e) == <<"Failed to query collection: ", ErrorMessage(e)>>

QueryInit ==
    /\ queryResults = <<>>
    /\ queryLoading = FALSE
    /\ queryError = Null
    /\ queryHistory = <<>>
    /\ queryCall = Null
    /\ lastQuery = Null

\* what handleQuery throws before its request is sent, if anything: the where box
\* is parsed first, then the whereDocument box, then queryCollection checks the client
ThrownBeforeRequest(data) ==
    IF InvalidJson(data.where) THEN Some(<<"Invalid JSON in where filter">>)
    ELSE IF InvalidJson(data.whereDocument)
         THEN Some(<<"Invalid JSON in whereDocument filter">>)
         ELSE IF client = Null THEN Some(NotConnected) ELSE Null

\* a handleQuery that leaves out a filter it cannot parse
handleQueryDropsInvalid(data) ==
    /\ ~queryLoading
    /\ LET thrown == IF client = Null THEN Some(NotConnected) ELSE Null IN
       /\ queryError' = thrown
       /\ queryLoading' = (thrown = Null)
       /\ queryCall' = IF thrown = Null THEN Some(data) ELSE Null
       /\ lastQuery' = Some([data |-> data, sent |-> thrown = Null,
                             results |-> queryResults, history |-> queryHistory])
    /\ UNCHANGED <<queryResults, queryHistory>>
    /\ UNCHANGED <<svcVars, viewerVars, filterVars, remoteVars, guiVars>>

\* handleQuery, up to its await: the submit button is disabled while loading
handleQuery(data) ==
    /\ ~queryLoading
    /\ LET thrown == ThrownBeforeRequest(data) IN
       /\ queryError' = thrown
       /\ queryLoading' = (thrown = Null)
       /\ queryCall' = IF thrown = Null THEN Some(data) ELSE Null
       /\ lastQuery' = Some([data |-> data, sent |-> thrown = Null,
                             results |-> queryResults, history |-> queryHistory])
    /\ UNCHANGED <<queryResults, queryHistory>>
    /\ UNCHANGED <<svcVars, viewerVars, filterVars, remoteVars, guiVars>>

\* queryCollection returned: the results are shown and the text is remembered
QueryResolve(answer) ==
    /\ queryCall # Null
    /\ queryResults' = answer
    /\ queryHistory' = IF Includes(queryHistory, queryCall[1].queryText)
                       THEN queryHistory
                       ELSE <<queryCall[1].queryText>> \o FirstFour(queryHistory)
    /\ queryLoading' = FALSE
    /\ queryCall' = Null
    /\ UNCHANGED <<queryError, lastQuery>>
    /\ UNCHANGED <<svcVars, viewerVars, filterVars, remoteVars, guiVars>>

\* queryCollection threw
QueryReject(e) ==
    /\ queryCall # Null
    /\ queryError' = Some(QueryFailure(e))
    /\ queryLoading' = FALSE
    /\ queryCall' = Null
    /\ UNCHANGED <<queryResults, queryHistory, lastQuery>>
    /\ UNCHANGED <<svcVars, viewerVars, filterVars, remoteVars, guiVars>>

-----------------------------------------------------------------------------
(* ChromaDBGUI: the connection, the collection list and the page shown, over the *)
(* service's connect, disconnect, getCollections and getCollectionDetails        *)

MaxListings == 2

MaxCollections == 2

CollectionNames == { "docs", "notes" }

\* what listCollections can answer
CollectionLists == { <<>>, <<"docs">>, <<"docs", "notes">> }

DetailCounts == { 3 }

\* a Collection as the pages read it; createdAt and the generated id are read by
\* nothing modelled here
Collection(name, count) == [name |-> name, count |-> count]

\* the cases of renderCurrentPage's switch
KnownPages ==
    { "home", "collections", "create-collection", "schema", "documents",
      "documents-edit", "query", "settings" }

\* the argument of the card's Query button
QueryLink(name) == "query?collection=" \o name

GuiInit ==
    /\ guiConnection = Null
    /\ collections = <<>>
    /\ selectedCollection = Null
    /\ guiPage = "home"
    /\ guiError = Null
    /\ listings = {}
    /\ nextListing = 1

\* renderCurrentPage: the component shown in the main pane
Rendering ==
    IF guiConnection = Null THEN "ConnectionForm"
    ELSE CASE guiPage = "home"              -> "Dashboard"
           [] guiPage = "collections"       -> "CollectionBrowser"
           [] guiPage = "create-collection" -> "CollectionCreator"
           [] guiPage = "schema" ->
                IF selectedCollection # Null THEN "SchemaViewer" ELSE "CollectionBrowser"
           [] guiPage = "documents" ->
                IF selectedCollection # Null THEN "DocumentViewer" ELSE "CollectionBrowser"
           [] guiPage = "documents-edit" ->
                IF selectedCollection # Null THEN "DocumentManager" ELSE "CollectionBrowser"
           [] guiPage = "query" ->
                IF selectedCollection # Null THEN "QueryInterface" ELSE "CollectionBrowser"
           [] guiPage = "settings"          -> "SettingsPage"
           [] OTHER                         -> "Dashboard"

\* the arguments the rendered buttons pass to onNavigate: the Sidebar's menu and its
\* plus button, the Dashboard's quick actions and collection cards, the
\* CollectionBrowser's create buttons and Query buttons (over its own listing), and
\* the CollectionCreator's Back and Cancel buttons
NavigationOffered ==
    { "home", "collections", "documents", "query", "settings" }
      \cup (IF guiConnection # Null THEN { "collections" } ELSE {})
      \cup (IF Rendering = "Dashboard"
            THEN { "collections", "query", "documents", "settings" }
                   \cup (IF Len(collections) > 0 THEN { "schema" } ELSE {})
            ELSE {})
      \cup (IF Rendering = "CollectionBrowser"
            THEN { "create-collection" } \cup { QueryLink(n) : n \in CollectionNames }
            ELSE {})
      \cup (IF Rendering = "CollectionCreator" THEN { "collections" } ELSE {})

\* the names the rendered buttons pass to onCollectionSelect: the Sidebar's list of
\* collections and the CollectionBrowser's cards
SelectionOffered ==
    (IF guiConnection # Null THEN { collections[i].name : i \in DOMAIN collections }
                             ELSE {})
      \cup (IF Rendering = "CollectionBrowser" THEN CollectionNames ELSE {})

\* fetchCollections, up to its await: getCollections throws at once with no client
StartListing(shownError) ==
    /\ listings' = IF client # Null
                   THEN listings \cup { [id |-> nextListing, pc |-> "list", names |-> <<>>] }
                   ELSE listings
    /\ nextListing' = nextListing + 1
    /\ guiError' = IF client # Null THEN shownError ELSE Some(NotConnected)

\* the form's testConnection, up to the await in connect; its buttons are disabled
\* while a call is under way
testConnection(t) ==
    /\ Rendering = "ConnectionForm"
    /\ pending = {}
    /\ nextListing <= MaxListings
    /\ ConnectStartCall(t)
    /\ UNCHANGED guiVars
    /\ UNCHANGED <<viewerVars, filterVars, remoteVars, queryVars>>

\* connect returned: handleConnectionSuccess, and then the effect on [connection]
ConnectionSucceeds(c) ==
    /\ HeartbeatResolveCall(c)
    /\ guiConnection' = Some(NewConnection(c.target))
    /\ guiPage' = "collections"
    /\ StartListing(Null)
    /\ UNCHANGED <<collections, selectedCollection>>
    /\ UNCHANGED <<viewerVars, filterVars, remoteVars, queryVars>>

\* connect threw: handleConnectionError
ConnectionFails(c, e) ==
    /\ HeartbeatRejectCall(c, e)
    /\ guiError' = Some(ConnectFailure(e))
    /\ UNCHANGED <<guiConnection, collections, selectedCollection, guiPage, listings,
                   nextListing>>
    /\ UNCHANGED <<viewerVars, filterVars, remoteVars, queryVars>>

\* the Disconnect button of the settings page
handleDisconnect ==
    /\ Rendering = "SettingsPage"
    /\ DisconnectCall
    /\ guiConnection' = Null
    /\ collections' = <<>>
    /\ selectedCollection' = Null
    /\ guiPage' = "home"
    /\ UNCHANGED <<guiError, listings, nextListing>>
    /\ UNCHANGED <<viewerVars, filterVars, remoteVars, queryVars>>

handleCollectionSelect(collectionName) ==
    /\ selectedCollection' = Some(collectionName)
    /\ guiPage' = "schema"
    /\ UNCHANGED <<guiConnection, collections, guiError, listings, nextListing>>
    /\ UNCHANGED <<svcVars, viewerVars, filterVars, remoteVars, queryVars>>

handleNavigate(page) ==
    /\ guiPage' = page
    /\ UNCHANGED <<guiConnection, collections, selectedCollection, guiError, listings,
                   nextListing>>
    /\ UNCHANGED <<svcVars, viewerVars, filterVars, remoteVars, queryVars>>

\* the DocumentViewer's edit button: onEditDocument
editDocument ==
    /\ Rendering = "DocumentViewer"
    /\ guiPage' = "documents-edit"
    /\ UNCHANGED <<guiConnection, collections, selectedCollection, guiError, listings,
                   nextListing>>
    /\ UNCHANGED <<svcVars, viewerVars, filterVars, remoteVars, queryVars>>

\* the CollectionCreator's createCollection returned: onCollectionCreated, which is
\* fetchCollections, and then onNavigate('collections')
CollectionCreated ==
    /\ Rendering = "CollectionCreator"
    /\ client # Null
    /\ nextListing <= MaxListings
    /\ guiPage' = "collections"
    /\ StartListing(guiError)
    /\ UNCHANGED <<guiConnection, collections, selectedCollection>>
    /\ UNCHANGED <<svcVars, viewerVars, filterVars, remoteVars, queryVars>>

\* listCollections answered: with no name, or with no client, Promise.all settles
\* without a remote call and every collection keeps its basic record
ListResolve(l, names) ==
    /\ l \in listings /\ l.pc = "list"
    /\ IF names = <<>> \/ client = Null
       THEN /\ collections' = [i \in DOMAIN names |-> Collection(names[i], 0)]
            /\ listings' = listings \ {l}
       ELSE /\ listings' = (listings \ {l}) \cup { [l EXCEPT !.pc = "details", !.names = names] }
            /\ UNCHANGED collections
    /\ UNCHANGED <<guiConnection, selectedCollection, guiPage, guiError, nextListing>>
    /\ UNCHANGED <<svcVars, viewerVars, filterVars, remoteVars, queryVars>>

\* listCollections rejected
ListReject(l, e) ==
    /\ l \in listings /\ l.pc = "list"
    /\ guiError' = Some(<<OpFailurePrefix("getCollections"), ErrorMessage(e)>>)
    /\ listings' = listings \ {l}
    /\ UNCHANGED <<guiConnection, collections, selectedCollection, guiPage, nextListing>>
    /\ UNCHANGED <<svcVars, viewerVars, filterVars, remoteVars, queryVars>>

\* every getCollectionDetails settled: counts[i] is null where it threw, and the
\* basic record stands in
DetailsSettle(l, counts) ==
    /\ l \in listings /\ l.pc = "details"
    /\ Len(counts) = Len(l.names)
    /\ collections' = [i \in DOMAIN l.names |->
                         Collection(l.names[i],
                                    IF counts[i] = Null THEN 0 ELSE counts[i][1])]
    /\ listings' = listings \ {l}
    /\ UNCHANGED <<guiConnection, selectedCollection, guiPage, guiError, nextListing>>
    /\ UNCHANGED <<svcVars, viewerVars, filterVars, remoteVars, queryVars>>

-----------------------------------------------------------------------------
(* SimpleEmbeddingFunction.generate as a function of one text *)

MaxChars == 2

embeddingDimensions == 1536

\* UTF-16 code units, as text.charCodeAt(i) returns them
CharCodes == { 97, 1000, 65535 }

\* the code units of a text of embeddingDimensions - 1 letters
Filler == [i \in 1..(embeddingDimensions - 1) |-> 97]

\* texts shorter than the vector, and texts that wrap around its end
Texts ==
    { head \o middle \o tail :
        head \in ListsUpTo(CharCodes, 1),
        middle \in { <<>>, Filler },
        tail \in ListsUpTo(CharCodes, MaxChars) }

\* the sum is not reduced, only the character code is
AccumulateReducingCode(value, code) == value + (code % 1000)

\* (embedding[i % 1536] + text.charCodeAt(i)) % 1000
Accumulate(value, code) == (value + code) % 1000

\* the loop of generate over the characters lo..hi, in increasing order (characters
\* and positions of the vector are counted from 1 here); the range is halved so
\* that the evaluation does not nest once per character, and the first half is
\* computed (its length is looked at) before the second half starts from it
RECURSIVE EmbedRange(_, _, _, _)
EmbedRange(chars, lo, hi, embedding) ==
    IF lo > hi THEN embedding
    ELSE IF lo = hi
    THEN [embedding EXCEPT ![((lo - 1) % embeddingDimensions) + 1] =
                               Accumulate(@, chars[lo])]
    ELSE LET mid == (lo + hi) \div 2
             firstHalf == EmbedRange(chars, lo, mid, embedding)
         IN  IF Len(firstHalf) = embeddingDimensions
             THEN EmbedRange(chars, mid + 1, hi, firstHalf)
             ELSE firstHalf

\* new Array(1536).fill(0), then the loop
Embedding(chars) ==
    EmbedRange(chars, 1, Len(chars), [j \in 1..embeddingDimensions |-> 0])

EmbeddingInit ==
    /\ input \in Texts
    /\ built = Null

\* generate([text])[0]
generate ==
    /\ built = Null
    /\ built' = Some(Embedding(input))
    /\ UNCHANGED input
    /\ UNCHANGED <<svcVars, viewerVars, remoteVars, queryVars, guiVars>>

-----------------------------------------------------------------------------
(* Specifications *)

\* the remote collection plays no part
RemoteIdle ==
    /\ stored = {}
    /\ added = Null
    /\ fetched = Null
    /\ listing = Null
    /\ shown = <<>>

\* the service alone, with connect, disconnect and operation calls in any order
Init == ServiceInit /\ ViewerIdle /\ FilterIdle /\ RemoteIdle /\ QueryInit /\ GuiInit

Next ==
    \/ \E t \in Targets : ConnectStart(t)
    \/ \E c \in pending : HeartbeatResolve(c)
    \/ \E c \in pending, e \in Rejections : HeartbeatReject(c, e)
    \/ Disconnect
    \/ \E op \in Ops, ok \in BOOLEAN, e \in Rejections : Operation(op, ok, e)

Spec == Init /\ [][Next]_vars

\* a mounted DocumentViewer over a service that is connected or not
ViewerSpecInit ==
    /\ \/ ServiceInit
       \/ /\ \E t \in { [name |-> "local", host |-> "localhost", port |-> 8000] } :
                /\ client = Some(NewClient(t, 1))
                /\ connection = Some(NewConnection(t))
                /\ last = Event("connect", 1, "returned", <<>>, 0, t)
                /\ lastGood = [id |-> 1, target |-> t, prev |-> Null]
          /\ pending = {}
          /\ nextId = 2
          /\ sinceDisconnect = FALSE
    /\ ViewerInit
    /\ FilterIdle
    /\ RemoteIdle
    /\ QueryInit
    /\ GuiInit

\* the bound on fetches still lets the user search, refresh or change page; once it
\* does not, no fetch reads what is typed or selected
CanSubmit == nextFetch <= MaxFetches

\* a mounted viewer whose user edits the search box and the tabs, searches,
\* refreshes and changes page while earlier fetches are still in flight
ViewerNext ==
    \/ CanSubmit /\ \E t \in Terms : SetSearchTerm(t)
    \/ CanSubmit /\ \E ty \in SearchTypes : SetSearchType(ty)
    \/ handleSearch
    \/ handleRefresh
    \/ \E p \in OfferedPages : handlePageChange(p)
    \/ \E f \in fetches : GetCollectionResolve(f)
    \/ \E f \in fetches : GetCollectionMissing(f)
    \/ \E f \in fetches, e \in Rejections : GetCollectionReject(f, e)
    \/ \E f \in fetches, r \in FlatResponses \cup NestedResponses : RequestResolve(f, r)
    \/ \E f \in fetches, e \in Rejections : RequestReject(f, e)
    \/ \E f \in fetches, n \in Counts : CountResolve(f, n)
    \/ \E f \in fetches, e \in Rejections : CountReject(f, e)

ViewerSpec == ViewerSpecInit /\ [][ViewerNext]_vars

\* the user has not searched, refreshed or changed page since the viewer was mounted
FirstSubmission == nextFetch = 2

\* a mounted viewer whose user fills in the search controls, the metadata clauses
\* included, and then searches, refreshes or changes page once
SearchNext ==
    \/ FirstSubmission /\ \E t \in Terms : SetSearchTerm(t)
    \/ FirstSubmission /\ \E ty \in SearchTypes : SetSearchType(ty)
    \/ FirstSubmission /\ addMetadataFilter
    \/ FirstSubmission /\ \E i \in DOMAIN metadataFilters : removeMetadataFilter(i)
    \/ FirstSubmission /\
         \E i \in DOMAIN metadataFilters, k \in { "field", "operator", "value" },
            v \in ViewerFields \cup ViewerOperators \cup ViewerValues :
              updateMetadataFilter(i, k, v)
    \/ FirstSubmission /\ handleSearch
    \/ FirstSubmission /\ handleRefresh
    \/ FirstSubmission /\ \E p \in OfferedPages : handlePageChange(p)
    \/ \E f \in fetches : GetCollectionResolve(f)
    \/ \E f \in fetches : GetCollectionMissing(f)
    \/ \E f \in fetches, e \in Rejections : GetCollectionReject(f, e)
    \/ \E f \in fetches, r \in FlatResponses \cup NestedResponses : RequestResolve(f, r)
    \/ \E f \in fetches, e \in Rejections : RequestReject(f, e)
    \/ \E f \in fetches, n \in Counts : CountResolve(f, n)
    \/ \E f \in fetches, e \in Rejections : CountReject(f, e)

SearchSpec == ViewerSpecInit /\ [][SearchNext]_vars

FilterSpecInit ==
    ServiceInit /\ ViewerIdle /\ FilterInit /\ RemoteIdle /\ QueryInit /\ GuiInit

FilterNext == BuildMetadataRequest

FilterSpec == FilterSpecInit /\ [][FilterNext]_vars

\* the viewer of document-viewer.tsx, mounted; what follows a rejected promise or a
\* resolved count is the same code as in the viewer above
BasicViewerNext ==
    \/ \E t \in Terms : BasicSetSearchTerm(t)
    \/ BasicHandleSearch
    \/ BasicHandleRefresh
    \/ \E p \in BasicOfferedPages : BasicHandlePageChange(p)
    \/ \E f \in fetches : BasicGetCollectionResolve(f)
    \/ \E f \in fetches : GetCollectionMissing(f)
    \/ \E f \in fetches, e \in Rejections : GetCollectionReject(f, e)
    \/ \E f \in fetches, r \in FlatResponses \cup NestedResponses : BasicRequestResolve(f, r)
    \/ \E f \in fetches, e \in Rejections : RequestReject(f, e)
    \/ \E f \in fetches, n \in Counts : CountResolve(f, n)
    \/ \E f \in fetches, e \in Rejections : CountReject(f, e)

BasicViewerSpec == ViewerSpecInit /\ [][BasicViewerNext]_vars

\* a service that is connected or not, over a collection that is empty or not
StoreSpecInit ==
    /\ \/ ServiceInit
       \/ /\ \E t \in { [name |-> "local", host |-> "localhost", port |-> 8000] } :
                /\ client = Some(NewClient(t, 1))
                /\ connection = Some(NewConnection(t))
                /\ last = Event("connect", 1, "returned", <<>>, 0, t)
                /\ lastGood = [id |-> 1, target |-> t, prev |-> Null]
          /\ pending = {}
          /\ nextId = 2
          /\ sinceDisconnect = FALSE
    /\ ViewerIdle
    /\ FilterIdle
    /\ RemoteInit
    /\ QueryInit
    /\ GuiInit

StoreNext ==
    \/ \E c \in Contents, m \in Metadatas, id \in DocIds, ok \in BOOLEAN, e \in Rejections :
         addDocument([content |-> c, metadata |-> m], id, ok, e)
    \/ \E id \in DocIds, c \in Contents, m \in Metadatas, ok \in BOOLEAN, e \in Rejections :
         updateDocument([id |-> id, content |-> c, metadata |-> m], ok, e)
    \/ \E id \in DocIds, ok \in BOOLEAN, e \in Rejections : deleteDocument(id, ok, e)
    \/ \E id \in DocIds : GetById(id)

StoreSpec == StoreSpecInit /\ [][StoreNext]_vars

\* a service that is connected or not, asked for the schema of one collection
SchemaSpecInit ==
    /\ \/ ServiceInit
       \/ /\ \E t \in { [name |-> "local", host |-> "localhost", port |-> 8000] } :
                /\ client = Some(NewClient(t, 1))
                /\ connection = Some(NewConnection(t))
                /\ last = Event("connect", 1, "returned", <<>>, 0, t)
                /\ lastGood = [id |-> 1, target |-> t, prev |-> Null]
          /\ pending = {}
          /\ nextId = 2
          /\ sinceDisconnect = FALSE
    /\ ViewerIdle
    /\ SchemaInit
    /\ RemoteIdle
    /\ QueryInit
    /\ GuiInit

SchemaNext == \E ok \in BOOLEAN, e \in Rejections : getCollectionSchema(ok, e)

SchemaSpec == SchemaSpecInit /\ [][SchemaNext]_vars

ProxySpecInit ==
    ServiceInit /\ ViewerIdle /\ ProxyInit /\ RemoteIdle /\ QueryInit /\ GuiInit

ProxyNext == GET

\* one GET of the heartbeat proxy route
ProxySpec == ProxySpecInit /\ [][ProxyNext]_vars

NormalizeSpecInit ==
    ServiceInit /\ ViewerIdle /\ NormalizeInit /\ RemoteIdle /\ QueryInit /\ GuiInit

NormalizeNext ==
    \/ NormalizeGet
    \/ NormalizeQuery
    \/ NormalizeQueryCollection

\* each normalization applied once to a response of its shape
NormalizeSpec == NormalizeSpecInit /\ [][NormalizeNext]_vars

\* a service that is connected, or one that has never been
ConnectedOrNot ==
    \/ ServiceInit
    \/ /\ \E t \in { [name |-> "local", host |-> "localhost", port |-> 8000] } :
             /\ client = Some(NewClient(t, 1))
             /\ connection = Some(NewConnection(t))
             /\ last = Event("connect", 1, "returned", <<>>, 0, t)
             /\ lastGood = [id |-> 1, target |-> t, prev |-> Null]
       /\ pending = {}
       /\ nextId = 2
       /\ sinceDisconnect = FALSE

QuerySpecInit ==
    ConnectedOrNot /\ ViewerIdle /\ FilterIdle /\ RemoteIdle /\ QueryInit /\ GuiInit

QueryNext ==
    \/ \E data \in QueryForms : handleQuery(data)
    \/ \E answer \in QueryAnswers : QueryResolve(answer)
    \/ \E e \in Rejections : QueryReject(e)

\* a mounted QueryInterface whose user submits one query after another
QuerySpec == QuerySpecInit /\ [][QueryNext]_vars

GuiSpecInit ==
    ServiceInit /\ ViewerIdle /\ FilterIdle /\ RemoteIdle /\ QueryInit /\ GuiInit

GuiNext ==
    \/ \E t \in { [name |-> "local", host |-> "localhost", port |-> 8000] } :
         testConnection(t)
    \/ \E c \in pending : ConnectionSucceeds(c)
    \/ \E c \in pending, e \in Rejections : ConnectionFails(c, e)
    \/ handleDisconnect
    \/ \E name \in SelectionOffered : handleCollectionSelect(name)
    \/ \E page \in NavigationOffered : handleNavigate(page)
    \/ editDocument
    \/ CollectionCreated
    \/ \E l \in listings, names \in CollectionLists : ListResolve(l, names)
    \/ \E l \in listings, e \in Rejections : ListReject(l, e)
    \/ \E l \in listings,
          counts \in UNION { [1..n -> { Null } \cup { Some(k) : k \in DetailCounts }] :
                             n \in 1..MaxCollections } :
         DetailsSettle(l, counts)

\* the application from its first render on: the user connects, navigates, selects
\* collections, creates collections and disconnects while listings are in flight
GuiSpec == GuiSpecInit /\ [][GuiNext]_vars

EmbeddingSpecInit ==
    ServiceInit /\ ViewerIdle /\ EmbeddingInit /\ RemoteIdle /\ QueryInit /\ GuiInit

EmbeddingNext == generate

\* the placeholder embedding computed once for a text
EmbeddingSpec == EmbeddingSpecInit /\ [][EmbeddingNext]_vars

ListingSpecInit ==
    ConnectedOrNot /\ ViewerIdle /\ FilterIdle /\ RemoteInit /\ QueryInit /\ GuiInit

ListingNext ==
    \/ \E id \in DocIds, ok \in BOOLEAN, e \in Rejections :
         addDocument([content |-> "hello world", metadata |-> Null], id, ok, e)
    \/ \E id \in DocIds, ok \in BOOLEAN, e \in Rejections :
         updateDocument([id |-> id, content |-> "", metadata |-> Null], ok, e)
    \/ \E id \in DocIds, ok \in BOOLEAN, e \in Rejections : deleteDocument(id, ok, e)
    \/ \E page \in ListedPages : ListStart(page)
    \/ ListGetResolve
    \/ ListCountResolve

\* the viewer lists pages of a collection that is written to at any time
ListingSpec == ListingSpecInit /\ [][ListingNext]_vars

-----------------------------------------------------------------------------
(* Session lifecycle claims *)

\* C1 (as claimed): whenever a connect call fails, it throws an error carrying the
\* underlying message and no session is installed afterwards: getConnection() is
\* null and isConnected() is false, whatever the state before the call.
C1_FailedConnectLeavesNoSession ==
    (last.call = "connect" /\ last.outcome = "threw") =>
        /\ \E e \in Rejections : last.error = ConnectFailure(e)
        /\ getConnection = Null
        /\ ~isConnected

\* C2 (as claimed): in every state in which getConnection() is null, each operation
\* fails with 'Not connected to ChromaDB' and issues no remote call.
C2_NoSessionOpsFail ==
    (getConnection = Null /\ last.call \in Ops) =>
        /\ last.outcome = "threw"
        /\ last.error = NotConnected
        /\ last.via = 0

\* C3: after disconnect() has completed and until the next connect call starts,
\* every operation fails with 'Not connected to ChromaDB' and sends nothing to the
\* remote service.
C3_AfterDisconnectOpsFail ==
    (sinceDisconnect /\ last.call \in Ops) =>
        /\ last.outcome = "threw"
        /\ last.error = NotConnected
        /\ last.via = 0

\* an operation was refused after a disconnect, although a connect call that was in
\* flight across the disconnect has since stored its connection record
C3_Witness ==
    /\ sinceDisconnect
    /\ last.call \in Ops
    /\ last.error = NotConnected
    /\ connection # Null

\* C4: when a connect call succeeds after an earlier one has returned successfully,
\* with nothing overlapping it, the session is entirely the later call's: the
\* record has its name, host and port and connected = true, the client is the one
\* it created, and every later operation goes through that client.
C4_SecondConnectReplaces ==
    (lastGood.id # 0 /\ lastGood.prev # Null) =>
        /\ getConnection = Some([name |-> lastGood.target.name,
                                 host |-> lastGood.target.host,
                                 port |-> lastGood.target.port,
                                 connected |-> TRUE])
        /\ getClient # Null
        /\ getClient[1].by = lastGood.id
        /\ getClient[1].host = lastGood.target.host
        /\ getClient[1].port = lastGood.target.port
        /\ (last.call \in Ops => (last.via = lastGood.id /\ last.error # NotConnected))

\* a second connect to another host replaced a live session and an operation has
\* since returned through its client
C4_Witness ==
    /\ lastGood.id # 0
    /\ lastGood.prev # Null
    /\ lastGood.prev[1].host # lastGood.target.host
    /\ last.call \in Ops
    /\ last.outcome = "returned"

\* C5 (as claimed): in every reachable state, isConnected() is true exactly when
\* getConnection() returns a record whose connected flag is true.
C5_IsConnectedIffRecord ==
    isConnected <=> (getConnection # Null /\ getConnection[1].connected = TRUE)

\* C6: disconnect() never fails; from any state it leaves getConnection() null,
\* getClient() null and isConnected() false, and a second call right after the
\* first leaves the state as the first left it.
C6_DisconnectIdempotent ==
    [][ last'.call = "disconnect" =>
            /\ last'.outcome = "returned"
            /\ getConnection' = Null
            /\ getClient' = Null
            /\ ~isConnected'
            /\ (last.call = "disconnect" =>
                    /\ client' = client
                    /\ connection' = connection
                    /\ pending' = pending) ]_vars

\* disconnect ran twice back to back while a connect call was in flight
C6_Witness ==
    /\ last.call = "disconnect"
    /\ last.id = 2
    /\ pending # {}

-----------------------------------------------------------------------------
(* Document viewer claims *)

\* C7: overlapping fetchDocuments calls are neither cancelled nor guarded by a
\* request generation: the documents shown are always those of the response that
\* arrived last, also when that response belongs to a call issued before one whose
\* response has already been applied.
C7_ShownIsLastArrived ==
    lastArrived.id # 0 =>
        documents = Normalize(lastArrived.request, lastArrived.results[1])

\* the mount listing's response arrived after the response of the semantic search
\* issued after it, and its documents replaced the search's
C7_Witness ==
    /\ lastArrived.id # 0
    /\ lastArrived.id < newestApplied
    /\ lastArrived.request.op = "get"
    /\ lastSent.id = newestApplied
    /\ lastSent.request.op = "query"
    /\ documents = NormalizeFlat(lastArrived.results[1])
    /\ documents # <<>>

IsComplete(filter) == filter.field # "" /\ filter.value # ""

\* the operator mapping the filter is meant to follow
ClaimedEntry(filter) ==
    CASE filter.operator = "equals"   -> Entry("", filter.value)
      [] filter.operator = "contains" -> Entry("$contains", filter.value)
      [] filter.operator = "greater"  -> Entry("$gt", filter.value)
      [] filter.operator = "less"     -> Entry("$lt", filter.value)

\* C8 (as claimed): every complete clause of the list is represented in the where
\* object sent, with its operator mapped (equals -> the value, contains ->
\* $contains, greater -> $gt, less -> $lt), also when clauses share a field.
C8_EveryCompleteClauseSent ==
    built # Null =>
        \A i \in DOMAIN input.filters :
            IsComplete(input.filters[i]) =>
                /\ built[1].where # Null
                /\ input.filters[i].field \in DOMAIN built[1].where[1]
                /\ built[1].where[1][input.filters[i].field]
                     = ClaimedEntry(input.filters[i])

\* the list without its i-th element
Without(list, i) == SubSeq(list, 1, i - 1) \o SubSeq(list, i + 1, Len(list))

\* C9: a clause whose field or value is empty adds no key to the where object and
\* leaves what the other clauses contribute as it is: every key is the field of a
\* complete clause, and the request is the one built from the list without the
\* incomplete clause.
C9_IncompleteClauseIgnored ==
    built # Null =>
        /\ built[1].where # Null =>
             \A k \in DOMAIN built[1].where[1] :
                \E i \in DOMAIN input.filters :
                    IsComplete(input.filters[i]) /\ input.filters[i].field = k
        /\ \A i \in DOMAIN input.filters :
             ~IsComplete(input.filters[i]) =>
                MetadataRequest(Without(input.filters, i), input.page) = built[1]

\* a request was built from a complete clause on one field followed by a clause
\* that names another field and has no value, and only the first field is a key
C9_Witness ==
    /\ built # Null
    /\ Len(input.filters) = 2
    /\ IsComplete(input.filters[1])
    /\ input.filters[1].field = "a"
    /\ input.filters[2].field = "b" /\ input.filters[2].value = ""
    /\ built[1].where # Null
    /\ DOMAIN built[1].where[1] = { "a" }

\* C10 (as claimed): a search submitted in metadata mode with at least one complete
\* clause sends a get request whose where filter is built from the clause list,
\* whatever the search box holds.
C10_MetadataSearchSendsWhere ==
    ( /\ lastSent.cause = "search"
      /\ lastSent.type = "metadata"
      /\ \E i \in DOMAIN lastSent.filters : IsComplete(lastSent.filters[i]) ) =>
        /\ lastSent.request.op = "get"
        /\ lastSent.request.where # Null
        /\ lastSent.request.where[1] = BuildWhere(lastSent.filters, EmptyObject)

\* C11: in metadata mode, when no clause of the list is complete, the get request
\* carries no where filter and the limit and offset of the default listing of the
\* same page.
C11_NoCompleteClauseOmitsWhere ==
    ( /\ built # Null
      /\ \A i \in DOMAIN input.filters : ~IsComplete(input.filters[i]) ) =>
        /\ built[1].op = "get"
        /\ built[1].where = Null
        /\ built[1].limit = Some(documentsPerPage)
        /\ built[1].offset = Some((input.page - 1) * documentsPerPage)
        /\ built[1] = FetchRequest(input.page, "", "text", <<>>)

\* a request for page 2 was built from two clauses, one with no value and one with
\* no field, and it carries no where filter
C11_Witness ==
    /\ built # Null
    /\ input.page = 2
    /\ Len(input.filters) = 2
    /\ input.filters[1].field = "a" /\ input.filters[1].value = ""
    /\ input.filters[2].field = "" /\ input.filters[2].value = "1"
    /\ built[1].where = Null
    /\ built[1].offset = Some(documentsPerPage)

\* C12 (as claimed): a semantic search sends a query request with nResults equal to
\* the page size and no offset, and the viewer never requests a page other than 1
\* of a semantic search.
C12_SemanticOnlyPageOne ==
    (lastSent.type = "semantic" /\ lastSent.search # "") =>
        /\ lastSent.request.op = "query"
        /\ lastSent.request.nResults = Some(documentsPerPage)
        /\ lastSent.request.offset = Null
        /\ lastSent.page = 1

\* C14 (as claimed): every get request the viewer sends, in text, ID, metadata mode
\* or as the default listing, for page p carries limit 20 and offset (p - 1) * 20.
C14_GetModesSendLimitAndOffset ==
    (lastSent.id # 0 /\ lastSent.request.op = "get") =>
        /\ lastSent.request.limit = Some(documentsPerPage)
        /\ lastSent.request.offset = Some((lastSent.page - 1) * documentsPerPage)

\* the ids the server returned, as a list: the flat array, or the inner array of
\* the nested one
ReturnedIds ==
    LET ids == IF input.shape = "flat" THEN input.results.ids
                                       ELSE Inner(input.results.ids) IN
    IF ids = Null THEN <<>> ELSE ids[1]

\* what the server returned for the i-th id in the array `name`, null when the
\* array, its inner array or the entry is missing
Returned(name, i) ==
    LET arr == IF input.shape = "flat" THEN input.results[name]
                                       ELSE Inner(input.results[name]) IN
    IF arr = Null THEN Null
    ELSE IF i > Len(arr[1]) THEN Null
    ELSE arr[1][i]

\* C13 (as claimed): in semantic mode the normalized result at position i has the
\* id at [0][i] of the nested response and carries the distance the server
\* returned at distances[0][i].
C13_SemanticResultCarriesDistance ==
    (built # Null /\ built[1].by = "semantic") =>
        \A i \in DOMAIN built[1].docs :
            /\ built[1].docs[i].id = ReturnedIds[i]
            /\ Returned("distances", i) # Null =>
                  /\ "distance" \in DOMAIN built[1].docs[i]
                  /\ built[1].docs[i].distance = Returned("distances", i)[1]

\* C16: for every response, flat or nested, normalization produces a list with one
\* document per returned id, in the server's order, whose content is the text the
\* server gave or the empty string and whose metadata is the mapping the server
\* gave or absent; missing documents, metadatas or distances arrays do not stop it.
C16_NormalizationDefaults ==
    built # Null =>
        /\ Len(built[1].docs) = Len(ReturnedIds)
        /\ \A i \in DOMAIN built[1].docs :
              /\ built[1].docs[i].id = ReturnedIds[i]
              /\ built[1].docs[i].content =
                    (IF Returned("documents", i) = Null THEN ""
                     ELSE Returned("documents", i)[1])
              /\ built[1].docs[i].metadata = Returned("metadatas", i)

\* a nested response with two ids, no documents array, no metadatas array and no
\* distances array was normalized into two documents with empty content
C16_Witness ==
    /\ built # Null
    /\ input.shape = "nested"
    /\ input.results.documents = Null
    /\ input.results.metadatas = Null
    /\ input.results.distances = Null
    /\ Len(built[1].docs) = 2
    /\ built[1].docs[1].id # built[1].docs[2].id
    /\ built[1].docs[2].content = ""
    /\ built[1].docs[2].metadata = Null

\* C15 (as claimed): after every document fetch that completed without an error, in
\* either viewer and in every search mode, the total shown for pagination is what
\* that fetch's own collection.count() call answered, and not the number of
\* documents the search returned.
C15_TotalIsCollectionCount ==
    lastDone.id # 0 =>
        /\ lastDone.count # Null
        /\ totalDocuments = lastDone.count[1]

C18_SchemaDefaults ==
    built # Null =>
        /\ built[1].vectorDimension = 1536
        /\ built[1].distanceFunction = "cosine"
        /\ (input.results.metadatas = Some(<<>>) => built[1].fields = <<>>)

\* the schema of a collection with no document was returned
C18_Witness ==
    /\ built # Null
    /\ last.call = "getCollectionSchema" /\ last.outcome = "returned"
    /\ input.results.metadatas = Some(<<>>)
    /\ built[1].fields = <<>>
    /\ built[1].name = "docs"

\* the classification the schema is meant to apply to a sample value
ClaimedType(value) ==
    CASE value.kind = "array"  -> "array"
      [] value.kind = "object" -> "object"
      [] OTHER                 -> value.kind

\* C19 (as claimed): the schema has one field per metadata key of the sampled
\* document, in order, and the type of a field is 'array' for an array value,
\* 'object' for a non-null object and the primitive type name for a string, a
\* number or a boolean.
C19_FieldTypeClassification ==
    ( /\ built # Null
      /\ input.results.metadatas # Null
      /\ Len(input.results.metadatas[1]) > 0
      /\ input.results.metadatas[1][1] # Null ) =>
        LET entries == input.results.metadatas[1][1][1] IN
        /\ Len(built[1].fields) = Len(entries)
        /\ \A i \in DOMAIN entries :
              /\ built[1].fields[i].name = entries[i].key
              /\ entries[i].value.kind # "null" =>
                    built[1].fields[i].type = ClaimedType(entries[i].value)

-----------------------------------------------------------------------------
(* Query interface claims *)

\* C21: when the where box or the whereDocument box of a handleQuery call holds text
\* that is not JSON, the call sends no request, the inline error is 'Invalid JSON in
\* where filter' or 'Invalid JSON in whereDocument filter' respectively, the results
\* and the query history are what they were when the call was made, and loading is
\* false
C21_InvalidFilterSendsNothing ==
    (/\ lastQuery # Null
     /\ \/ InvalidJson(lastQuery[1].data.where)
        \/ InvalidJson(lastQuery[1].data.whereDocument))
    => /\ ~lastQuery[1].sent
       /\ queryCall = Null
       /\ queryError = IF InvalidJson(lastQuery[1].data.where)
                       THEN Some(<<"Invalid JSON in where filter">>)
                       ELSE Some(<<"Invalid JSON in whereDocument filter">>)
       /\ queryResults = lastQuery[1].results
       /\ queryHistory = lastQuery[1].history
       /\ queryLoading = FALSE

\* a query has been answered and remembered, and the next call has a where box that
\* parses and a whereDocument box that does not
C21_Witness ==
    /\ lastQuery # Null
    /\ lastQuery[1].data.where = "{\"topic\":\"ml\"}"
    /\ InvalidJson(lastQuery[1].data.whereDocument)
    /\ client # Null
    /\ queryResults # <<>>
    /\ queryHistory # <<>>
    /\ queryError = Some(<<"Invalid JSON in whereDocument filter">>)

-----------------------------------------------------------------------------
(* Listing claims *)

-----------------------------------------------------------------------------
(* Embedding claims *)

\* the sum the claim gives for one position of the vector: over the characters at
\* position, position + 1536, position + 2 * 1536, ... in increasing order (both
\* counted from 1), value := (value + code) mod 1000, starting from value
RECURSIVE Accumulated(_, _, _)
Accumulated(chars, position, value) ==
    IF position > Len(chars) THEN value
    ELSE Accumulated(chars, position + embeddingDimensions,
                     (value + chars[position]) % 1000)

\* C23: the placeholder embedding of a text is a vector of exactly 1536 integers,
\* each from 0 to 999, whose element j is what accumulating value := (value +
\* charCode(i)) mod 1000 from 0 gives over the character indices i with
\* i mod 1536 = j, in increasing order
C23_EmbeddingIsPositionwiseSum ==
    built # Null
    => /\ Len(built[1]) = 1536
       /\ \A j \in 1..1536 :
            /\ built[1][j] \in 0..999
            /\ built[1][j] = Accumulated(input, j, 0)

\* the embedding of a text longer than the vector, which wraps onto its first
\* element with a sum that passes 1000
C23_Witness ==
    /\ built # Null
    /\ Len(input) > embeddingDimensions
    /\ input[1] = 65535
    /\ input[embeddingDimensions + 1] = 65535
    /\ built[1][1] = 70

-----------------------------------------------------------------------------
(* Search mode claims *)

\* C24 (as claimed): a fetch in regex mode with a non-empty search term sends the
\* request the text mode sends for that term and page: a get whose whereDocument is
\* {$contains: term}, with limit 20 and the page offset
C24_RegexSendsTextRequest ==
    (lastSent.id # 0 /\ lastSent.type = "regex" /\ lastSent.search # "")
    => lastSent.request =
         Request("get", Null, Some(Entry("$contains", lastSent.search)), Null, Null,
                 Some(20), Some((lastSent.page - 1) * 20), Null)

-----------------------------------------------------------------------------
(* Viewer concurrency and frame claims *)

\* C27 (as claimed): loading is true in every state in which at least one
\* fetchDocuments call is in flight; it becomes false only when the last call in
\* flight has completed or failed
C27_LoadingWhileInFlight == fetches # {} => loading

\* C28 (as claimed): when a fetchDocuments call ends in an error, at getCollection,
\* at the get or query, or at count, the documents and the total shown are what they
\* were when the call started
C28_FailedFetchKeepsDisplay ==
    [][ \A f \in fetches :
          (f \notin fetches' /\ (\A g \in fetches' : g.id # f.id) /\ lastDone' = lastDone)
          => /\ documents' = f.documentsBefore
             /\ totalDocuments' = f.totalBefore ]_vars

\* C29 (as claimed): the request of the fetch a page change starts is the one for
\* the term, the mode and the clauses of the latest Search or Refresh, with the new
\* page, whatever has been typed or selected since
C29_PageChangeKeepsSubmittedSearch ==
    [][ (currentPage' # currentPage /\ nextFetch' = nextFetch + 1)
        => \A f \in fetches' \ fetches :
             FetchRequest(f.page, f.search, f.type, f.filters)
               = FetchRequest(currentPage', submitted.search, submitted.type,
                              submitted.filters) ]_vars

-----------------------------------------------------------------------------
(* Session agreement claims *)

\* C25 (as claimed): in every reachable state of the service, also while connect
\* and disconnect calls overlap, getClient() is non-null exactly when getConnection()
\* is non-null, and when both exist the record's host and port are those the client
\* was created with
C25_ClientAndConnectionAgree ==
    /\ getClient # Null <=> getConnection # Null
    /\ (getClient # Null /\ getConnection # Null)
       => /\ getConnection[1].host = getClient[1].host
          /\ getConnection[1].port = getClient[1].port

-----------------------------------------------------------------------------
(* Application shell claims *)

\* C26 (as claimed): whenever the application holds no connection, its list of
\* collections is empty and no collection is selected, also when a fetchCollections
\* call that started while connected completes after handleDisconnect
C26_NoConnectionNoCollections ==
    guiConnection = Null => (collections = <<>> /\ selectedCollection = Null)

\* C30 (as claimed): currentPage is always one of the pages renderCurrentPage
\* handles by name: home, collections, create-collection, schema, documents,
\* documents-edit, query, settings
C30_PageIsHandledByName ==
    guiPage \in { "home", "collections", "create-collection", "schema", "documents",
                  "documents-edit", "query", "settings" }

====
